---- MODULE Spec2Model ----
(***************************************************************************)
(* Verification model of the Trading Intelligence Engine scanner:          *)
(* scheduler (server/scanner.ts), storage contracts (server/storage.ts),   *)
(* alert dispatch (server/alerter.ts) and the pure helpers they use.       *)
(*                                                                         *)
(* Time is in milliseconds since the epoch.  Every `await` of the source   *)
(* is a step of the task that executes it; the synchronous code between    *)
(* two awaits belongs to the step that precedes it.                        *)
(***************************************************************************)
EXTENDS Integers, Sequences, FiniteSets, TLC

\* ------------------------------------------------------------------ bounds
\* How many 15-minute boundaries the wall clock may pass during a run.
MaxClockSteps == 1
\* How many ScanRun rows storage accepts before createScanRun can only fail.
MaxRuns == 2
\* How many scheduler timers may be pending in one process at once.
MaxTimers == 2
MaxCandles == 3
MaxStamp == 4
FetchMs == 1000
MaxText == 3
MaxCap == 2
MaxMinutes == 2

\* ------------------------------------------------------- program constants
QuarterMs == 900000
HourMs == 3600000
MinScoreToAlert == 60
MinBiasIndicators == 4
MinEntryCandles == 2
MinBreakoutCandles == 24
MinBreakoutIndicators == 50
BreakoutRangeEnd == 22
PLAN_LIMIT_PER_MIN == 610
TARGET_CREDITS_PER_MIN == 520
MAX_RETRIES == 3
WindowMs == 60000
BudgetGraceMs == 25
JitterRangeMs == 500
MinuteMs == 60000
SubjectCap == 500
ReasonKeyCap == 60
ReasonValueCap == 300
SymbolCap == 40
VendorSymbolCap == 60
DirectionCap == 10
BaseLen == 3
GraceMs == 2000

Procs == {"A", "B"}
Kinds == {"tick", "manual"}
AllInstruments == {"BTCUSD", "EURUSD"}
Timeframes == {"15m", "1h"}
ReqIds == {"r1", "r2", "r3"}

\* ------------------------------------------------------------------- state
VARIABLES
    now,            \* wall clock, ms
    procs,          \* the server processes of the fleet that are running
    env,            \* what the collaborators may do in this run (fixed)
    lockOwner,      \* holder of pg advisory lock 424242, or "none"
    starting,       \* per process: the startScanner call in progress / its outcome
    scannerTimeout, \* per process: the module variable scannerTimeout
    timers,         \* per process: number of setTimeout timers still pending
    isScanning,     \* per process: the module variable isScanning
    task,           \* per process and entry point: the async call's position and locals
    settings,       \* storage: the settings row
    scanRuns,       \* storage: scan_runs, id = index, value = status
    candles,        \* storage: candles per instrument and timeframe, newest first
    indicators,     \* storage: indicator rows per instrument and timeframe, bar -> complete
    scanProgress,   \* storage: scan_progress per instrument (15m), <<>> or <<bar>>
    signals,        \* storage: signals, id = index
    alertEvents,    \* storage: alert_events, append-only
    mailLog,        \* signal key -> number of mailer.sendMail invocations
    args,           \* input of the pure function under check
    ret,            \* its result
    rateLimit,      \* twelvedata: the module variable rateLimit
    requestQueue,   \* twelvedata: the request whose promise is requestQueue, or "none"
    reqs,           \* twelvedata: per requestWithRetry call, its position and locals
    batch,          \* twelvedata: the fetchIndicatorPackBatch call's position
    history         \* requests enqueued so far, the last pause deadline, and the
                    \* endpoints the sequential fallback has called

schedVars == <<lockOwner, starting, scannerTimeout, timers, isScanning>>
dbVars == <<settings, scanRuns, candles, indicators, scanProgress, signals, alertEvents>>
envVars == <<now, procs, env>>
pureVars == <<args, ret>>
vendorVars == <<rateLimit, requestQueue, reqs, batch, history>>
vars == <<now, procs, env, lockOwner, starting, scannerTimeout, timers, isScanning, task,
          settings, scanRuns, candles, indicators, scanProgress, signals, alertEvents,
          mailLog, args, ret, rateLimit, requestQueue, reqs, batch, history>>

\* ----------------------------------------------------------- pure helpers

Max(a, b) == IF a >= b THEN a ELSE b

\* The first of the indices `hits` of a list, 0 when there is none.
FirstIndex(hits) ==
    IF hits = {} THEN 0 ELSE CHOOSE i \in hits : \A j \in hits : i <= j

TfMs(timeframe) == IF timeframe = "15m" THEN QuarterMs ELSE HourMs

\* getLatestClosedCandle: candles.find(c => c.datetimeUtc + tfMs <= nowMs) ?? null.
\* A candle is its datetimeUtc; the result is <<>> (null) or <<candle>>.
GetLatestClosedCandleFirstAny(cs, timeframe, nowMs) ==
    IF Len(cs) = 0 THEN <<>> ELSE <<cs[1]>>

GetLatestClosedCandle(cs, timeframe, nowMs) ==
    IF Len(cs) = 0 THEN <<>>
    ELSE LET i == FirstIndex({j \in 1..Len(cs) : cs[j] + TfMs(timeframe) <= nowMs})
         IN  IF i = 0 THEN <<>> ELSE <<cs[i]>>

RECURSIVE SortDesc(_)
SortDesc(S) ==
    IF S = {} THEN <<>>
    ELSE LET m == CHOOSE x \in S : \A y \in S : y <= x
         IN  <<m>> \o SortDesc(S \ {m})

Take(seq, n) == IF Len(seq) <= n THEN seq ELSE SubSeq(seq, 1, n)

\* ------------------------------------------------------------ environment
\* Whether a call to a collaborator returns (TRUE) or throws (FALSE).  The calls
\* are grouped: "cycle" (ScanRun and instrument-list calls of runScanCycle),
\* "data" (vendor fetch, candle / indicator upserts and reads, getScanProgress),
\* "alert" (signal, settings, alert-event and watermark calls, SMTP).
Outcomes(group) == IF group \in env.faults THEN {TRUE, FALSE} ELSE {TRUE}

\* The bars the vendor returns at instant t: every bar opened at or before t,
\* the last one still forming.
VendorBars(timeframe, t) == {k * TfMs(timeframe) : k \in 0..(t \div TfMs(timeframe))}

\* What evaluateStrategies may return for a bar: at most one TREND_CONTINUATION
\* and at most one RANGE_BREAKOUT result, in that order.
TrendResults ==
    { [strategy |-> "TREND_CONTINUATION", direction |-> "LONG", score |-> 55, reason |-> "r1"],
      [strategy |-> "TREND_CONTINUATION", direction |-> "LONG", score |-> 75, reason |-> "r2"] }
BreakoutResults ==
    { [strategy |-> "RANGE_BREAKOUT", direction |-> "SHORT", score |-> 70, reason |-> "r1"] }
ResultSets ==
    {<<>>} \cup {<<t>> : t \in TrendResults} \cup {<<b>> : b \in BreakoutResults}
           \cup {<<t, b>> : t \in TrendResults, b \in BreakoutResults}

\* The rows evaluateStrategies reads of its input, each <<timeframe, series,
\* datetimeUtc>>.  evaluateTrendContinuation: nothing unless there are 4 bias
\* indicator rows and 2 entry candles and an entry indicator row of the latest
\* candle; then the two newest entry candles, that indicator row, and the
\* bias indicator rows [0] and [3].
TrendReads(input) ==
    IF Len(input.biasIndicators) < MinBiasIndicators
       \/ Len(input.entryCandles) < MinEntryCandles
       \/ \A i \in 1..Len(input.entryIndicators) :
            input.entryIndicators[i] # input.entryCandles[1]
      THEN {}
      ELSE {<<"15m", "candle", input.entryCandles[1]>>,
            <<"15m", "candle", input.entryCandles[2]>>,
            <<"15m", "indicator", input.entryCandles[1]>>,
            <<"1h", "indicator", input.biasIndicators[1]>>,
            <<"1h", "indicator", input.biasIndicators[MinBiasIndicators]>>}

\* evaluateRangeBreakout: nothing unless there are 24 entry candles and 50
\* entry indicator rows; then the bbWidth of the 50 newest indicator rows and
\* the 22 newest entry candles.
BreakoutReads(input) ==
    IF Len(input.entryCandles) < MinBreakoutCandles
       \/ Len(input.entryIndicators) < MinBreakoutIndicators
      THEN {}
      ELSE {<<"15m", "indicator", input.entryIndicators[i]>> : i \in 1..MinBreakoutIndicators}
           \cup {<<"15m", "candle", input.entryCandles[i]>> : i \in 1..BreakoutRangeEnd}

StrategyReads(input) == TrendReads(input) \cup BreakoutReads(input)

\* candles.filter(c => c.datetimeUtc <= latestClosed.datetimeUtc)
RECURSIVE AtOrBefore(_, _)
AtOrBefore(cs, bar) ==
    IF cs = <<>> THEN <<>>
    ELSE (IF Head(cs) <= bar THEN <<Head(cs)>> ELSE <<>>) \o AtOrBefore(Tail(cs), bar)

\* ---------------------------------------------------------------- storage
\* getCandles: rows of (instrument, timeframe) newest first, at most `limit`.
GetCandles(inst, timeframe, limit) == Take(SortDesc(candles[inst][timeframe]), limit)

\* upsertCandles: insert, on conflict (instrument, timeframe, datetime) update.
UpsertCandles(inst, timeframe, bars) ==
    [candles EXCEPT ![inst][timeframe] = @ \cup bars]

\* upsertIndicators: one row per datetime, last write wins on every field;
\* `complete` says whether the written rows carry every required field.
UpsertIndicators(inst, timeframe, bars, complete) ==
    [indicators EXCEPT ![inst][timeframe] = [b \in bars |-> complete] @@ @]

\* getIndicators: the rows of (instrument, timeframe) newest first, at most
\* `limit`; a row is named by its datetimeUtc.
GetIndicators(inst, timeframe, limit) ==
    Take(SortDesc(DOMAIN indicators[inst][timeframe]), limit)

\* indicatorsCompleteForCandle: the row with the candle's datetime exists and
\* hasRequiredIndicators holds of it.
IndicatorsPresentForCandle(candle, inds) == candle \in DOMAIN inds

IndicatorsCompleteForCandle(candle, inds) ==
    candle \in DOMAIN inds /\ inds[candle]

SignalKey(r) == <<r.instrumentId, r.timeframe, r.strategy, r.direction, r.candleDatetimeUtc>>

\* findActiveSignal: a row with the instrument, timeframe, strategy and
\* direction whose status is NEW (0 when there is none).
FindActiveSignalOfNoBar(inst, timeframe, strategy, direction) == 0

FindActiveSignal(inst, timeframe, strategy, direction) ==
    FirstIndex({j \in 1..Len(signals) :
        /\ signals[j].instrumentId = inst /\ signals[j].timeframe = timeframe
        /\ signals[j].strategy = strategy /\ signals[j].direction = direction
        /\ signals[j].status = "NEW"})

\* upsertSignal: insert, on conflict on the five key columns update score
\* and reasonJson (detectedAt is not modelled); returns the stored row.  A row's id is its index.
UpsertSignalAlwaysInsert(data) ==
    [rows |-> Append(signals, data), id |-> Len(signals) + 1]

UpsertSignalResetStatus(data) ==
    LET i == FirstIndex({j \in 1..Len(signals) : SignalKey(signals[j]) = SignalKey(data)})
    IN  IF i = 0 THEN [rows |-> Append(signals, data), id |-> Len(signals) + 1]
        ELSE [rows |-> [signals EXCEPT ![i].score = data.score,
                                       ![i].reasonJson = data.reasonJson,
                                       ![i].status = data.status],
              id |-> i]

UpsertSignal(data) ==
    LET i == FirstIndex({j \in 1..Len(signals) : SignalKey(signals[j]) = SignalKey(data)})
    IN  IF i = 0 THEN [rows |-> Append(signals, data), id |-> Len(signals) + 1]
        ELSE [rows |-> [signals EXCEPT ![i].score = data.score,
                                       ![i].reasonJson = data.reasonJson],
              id |-> i]

\* updateSignalStatus: update signals set status where id = id.
UpdateSignalStatus(id, status) == [signals EXCEPT ![id].status = status]

Bump(log, k) == IF k \in DOMAIN log THEN [log EXCEPT ![k] = @ + 1] ELSE (k :> 1) @@ log

\* ------------------------------------------------------------------ tasks
\* What the last finished processInstrument call of a cycle did: how it ended,
\* the latest closed entry bar and the watermark it read, the tables it wrote,
\* the count it returned.
NoCall == [exit |-> "none", inst |-> "", lcE |-> <<>>, progress |-> <<>>,
           writes |-> {}, count |-> 0]

\* The sendSignalAlert call in progress or just returned: the signal and what
\* the call did so far ("sent" / "failed" for sendMail, then the rows written).
NoAlert == [signal |-> 0, steps |-> <<>>]

IdleTask ==
    [pc |-> "idle", scanEnabled |-> FALSE, burst |-> 0, runId |-> 0, idx |-> 0,
     afterStop |-> FALSE,
     failures |-> {}, signalCount |-> 0, attempted |-> <<>>, escaped |-> FALSE,
     entryCandles |-> <<>>, entryIndicators |-> <<>>,
     biasCandles |-> <<>>, biasIndicators |-> <<>>, reads |-> {},
     lcE |-> <<>>, lcB |-> <<>>, indOK |-> FALSE, progress |-> <<>>,
     results |-> <<>>, ri |-> 0, signal |-> 0, signalStatus |-> "",
     writes |-> {}, count |-> 0, alert |-> NoAlert, lastCall |-> NoCall]

T(p, k) == task[p][k]
Set(p, k, rec) == task' = [task EXCEPT ![p][k] = rec]

\* Where control goes when runScanCycle returns or throws.
AfterCycle(k) == IF k = "tick" THEN "tick_end" ELSE "idle"

InCycle(p, k) == T(p, k).pc \notin {"idle", "tick_getSettings", "tick_decide", "tick_end"}

\* ------------------------------------------------------------- scheduler
\* msUntilNext15mBoundary: the time to the next 15-minute boundary, a whole
\* interval when nowMs is on a boundary.
MsUntilNext15mBoundaryCeil(nowMs) == (QuarterMs - (nowMs % QuarterMs)) % QuarterMs

MsUntilNext15mBoundary(nowMs) ==
    LET intervalMs == QuarterMs
        remainder == nowMs % intervalMs
    IN  IF remainder = 0 THEN intervalMs ELSE intervalMs - remainder

\* The delay scheduleNextTick passes to setTimeout at nowMs.
DelayMs(nowMs) == MsUntilNext15mBoundary(nowMs) + GraceMs

\* scheduleNextTick: arm a timer and keep its handle in scannerTimeout.
\* The handle is "pending" while its timer has not fired, "fired" afterwards.
ScheduleNextTick(p) ==
    /\ timers' = [timers EXCEPT ![p] = @ + 1]
    /\ scannerTimeout' = [scannerTimeout EXCEPT ![p] = "pending"]

\* startScanner up to its await: nothing when a handle is set, otherwise query
\* pg_try_advisory_lock.  starting[p] is "lock" while the query is awaited and
\* afterwards tells how the last call ended ("refused" or "scheduled").
StartScanner(p) ==
    /\ p \in procs
    /\ scannerTimeout[p] = "null"
    /\ starting[p] # "lock"
    /\ timers[p] + Cardinality({k \in {"tick"} : T(p, k).pc # "idle"}) < MaxTimers
    /\ starting' = [starting EXCEPT ![p] = "lock"]
    /\ UNCHANGED <<envVars, lockOwner, scannerTimeout, timers, isScanning, task, dbVars,
                   mailLog, pureVars, vendorVars>>

\* if (!acquired) return
ProceedsAlways(acquired) == TRUE

Proceeds(acquired) == acquired

\* startScanner after the query: return when the lock was not acquired, else
\* schedule the first tick.  The lock is session-level: a process that holds it
\* may or may not get it again (pooled connections).
StartScannerLock(p) ==
    /\ starting[p] = "lock"
    /\ \E acquired \in BOOLEAN :
        /\ acquired => lockOwner \in {"none", p}
        /\ ~acquired => lockOwner # "none"
        /\ lockOwner' = IF acquired THEN p ELSE lockOwner
        /\ IF Proceeds(acquired)
             THEN /\ ScheduleNextTick(p)
                  /\ starting' = [starting EXCEPT ![p] = "scheduled"]
             ELSE /\ starting' = [starting EXCEPT ![p] = "refused"]
                  /\ UNCHANGED <<timers, scannerTimeout>>
    /\ UNCHANGED <<envVars, isScanning, task, dbVars, mailLog, pureVars, vendorVars>>

\* stopScanner: clearTimeout(scannerTimeout); scannerTimeout = null.
StopScanner(p) ==
    /\ p \in procs
    /\ scannerTimeout[p] # "null"
    /\ timers' = [timers EXCEPT ![p] = IF scannerTimeout[p] = "pending" THEN @ - 1 ELSE @]
    /\ scannerTimeout' = [scannerTimeout EXCEPT ![p] = "null"]
    /\ UNCHANGED <<envVars, lockOwner, starting, isScanning, task, dbVars, mailLog, pureVars, vendorVars>>

\* A pending timer fires: its callback starts with `await tick()`, whose first
\* await is storage.getSettings().
TimerFire(p) ==
    /\ p \in procs
    /\ timers[p] > 0
    /\ T(p, "tick").pc = "idle"
    /\ \E own \in BOOLEAN :
        /\ own => scannerTimeout[p] = "pending"
        /\ ~own => timers[p] > (IF scannerTimeout[p] = "pending" THEN 1 ELSE 0)
        /\ scannerTimeout' = [scannerTimeout EXCEPT ![p] = IF own THEN "fired" ELSE @]
    /\ timers' = [timers EXCEPT ![p] = @ - 1]
    /\ Set(p, "tick", [IdleTask EXCEPT !.pc = "tick_getSettings"])
    /\ UNCHANGED <<envVars, lockOwner, starting, isScanning, dbVars, mailLog, pureVars, vendorVars>>

\* tick: const settings = await storage.getSettings().
TickGetSettings(p) ==
    /\ T(p, "tick").pc = "tick_getSettings"
    /\ \E ok \in Outcomes("cycle") :
        Set(p, "tick",
            IF ok THEN [T(p, "tick") EXCEPT !.pc = "tick_decide",
                                            !.scanEnabled = settings.scanEnabled,
                                            !.burst = settings.maxSymbolsPerBurst]
                  ELSE [T(p, "tick") EXCEPT !.pc = "tick_end"])
    /\ UNCHANGED <<envVars, schedVars, dbVars, mailLog, pureVars, vendorVars>>

\* runScanCycle, up to its first await: the in-flight guard.
AlreadyScanningNever(p) == FALSE

AlreadyScanning(p) == isScanning[p]

\* stopScanner has run since the last startScanner call scheduled a tick.
Stopped(p) == scannerTimeout[p] = "null" /\ starting[p] = "scheduled"

\* runScanCycle called by entry point k with burst size b: return at once when
\* a cycle is in flight, else set the guard and call storage.createScanRun.
\* afterStop records whether the scheduler was stopped at the call.
RunScanCycle(p, k, b) ==
    IF AlreadyScanning(p)
      THEN /\ Set(p, k, [IdleTask EXCEPT !.pc = AfterCycle(k)])
           /\ UNCHANGED isScanning
      ELSE /\ isScanning' = [isScanning EXCEPT ![p] = TRUE]
           /\ Set(p, k, [IdleTask EXCEPT !.pc = "createRun", !.burst = b,
                                         !.afterStop = Stopped(p)])

\* tick, after getSettings: return when scanning is disabled, call
\* runScanCycle when no cycle is in flight.
TickDecide(p) ==
    /\ T(p, "tick").pc = "tick_decide"
    /\ IF T(p, "tick").scanEnabled /\ ~isScanning[p]
         THEN RunScanCycle(p, "tick", T(p, "tick").burst)
         ELSE /\ Set(p, "tick", [IdleTask EXCEPT !.pc = "tick_end"])
              /\ UNCHANGED isScanning
    /\ UNCHANGED <<envVars, lockOwner, starting, scannerTimeout, timers, dbVars, mailLog, pureVars, vendorVars>>

\* if (scannerTimeout !== null) scheduleNextTick()
StillStartedAndIdle(p) == scannerTimeout[p] # "null" /\ ~isScanning[p]

StillStarted(p) == scannerTimeout[p] # "null"

\* The timer callback after tick() settled (returned, or threw and was caught):
\* reschedule unless stopped.
TickEnd(p) ==
    /\ T(p, "tick").pc = "tick_end"
    /\ IF StillStarted(p)
         THEN ScheduleNextTick(p)
         ELSE UNCHANGED <<timers, scannerTimeout>>
    /\ Set(p, "tick", IdleTask)
    /\ UNCHANGED <<envVars, lockOwner, starting, isScanning, dbVars, mailLog, pureVars, vendorVars>>

\* POST /api/scan/run: runScanCycle("15m") with the default burst size 4.
ManualTrigger(p) ==
    /\ p \in procs
    /\ T(p, "manual").pc = "idle"
    /\ RunScanCycle(p, "manual", 4)
    /\ UNCHANGED <<envVars, lockOwner, starting, scannerTimeout, timers, dbVars, mailLog, pureVars, vendorVars>>

\* ------------------------------------------------------------ runScanCycle
\* The cycle is over (returned or threw): the task's locals are gone.
Finished(k) == [IdleTask EXCEPT !.pc = AfterCycle(k)]

\* await storage.createScanRun({status: "running"}), before the try block:
\* when it throws, the exception leaves runScanCycle.
CreateScanRun(p, k) ==
    /\ T(p, k).pc = "createRun"
    /\ \E ok \in Outcomes("cycle") :
        /\ ok => Len(scanRuns) < MaxRuns
        /\ IF ok
             THEN /\ scanRuns' = Append(scanRuns, "running")
                  /\ Set(p, k, [T(p, k) EXCEPT !.pc = "getInstruments",
                                               !.runId = Len(scanRuns) + 1])
             ELSE /\ Set(p, k, Finished(k))
                  /\ UNCHANGED scanRuns
    /\ UNCHANGED <<envVars, schedVars, settings, candles, indicators, scanProgress,
                   signals, alertEvents, mailLog, pureVars, vendorVars>>

\* The loop of runScanCycle calls processInstrument(instruments[i]).
CallProcessInstrument(t, i) ==
    [t EXCEPT !.pc = "pi_ingest15", !.idx = i, !.attempted = Append(@, env.instruments[i])]

\* An exception reaches the catch block of runScanCycle.
Escape(t) == [t EXCEPT !.pc = "errorUpdate", !.escaped = TRUE]

\* await storage.getEnabledInstruments(), then the first processInstrument call.
GetEnabledInstruments(p, k) ==
    /\ T(p, k).pc = "getInstruments"
    /\ \E ok \in Outcomes("cycle") :
        Set(p, k,
            IF ~ok THEN Escape(T(p, k))
            ELSE IF Len(env.instruments) = 0 THEN [T(p, k) EXCEPT !.pc = "finalize"]
            ELSE CallProcessInstrument(T(p, k), 1))
    /\ UNCHANGED <<envVars, schedVars, dbVars, mailLog, pureVars, vendorVars>>

\* processInstrument returned (exit # "threw") or threw: the loop of
\* runScanCycle records it and goes to the next instrument, the inter-burst
\* sleep or the final update.
AfterInstrument(t, exit) ==
    LET threw == exit = "threw"
        base == [t EXCEPT !.failures = IF threw THEN @ \cup {env.instruments[t.idx]} ELSE @,
                          !.signalCount = IF threw THEN @ ELSE @ + t.count,
                          !.lastCall = [exit |-> exit, inst |-> env.instruments[t.idx],
                                        lcE |-> t.lcE, progress |-> t.progress,
                                        writes |-> t.writes,
                                        count |-> IF threw THEN 0 ELSE t.count],
                          !.entryCandles = <<>>, !.entryIndicators = <<>>,
                          !.biasCandles = <<>>, !.biasIndicators = <<>>, !.reads = {},
                          !.lcE = <<>>, !.lcB = <<>>, !.indOK = FALSE, !.progress = <<>>,
                          !.results = <<>>, !.ri = 0, !.signal = 0, !.signalStatus = "",
                          !.writes = {}, !.count = 0, !.alert = NoAlert]
    IN  IF t.idx = Len(env.instruments) THEN [base EXCEPT !.pc = "finalize"]
        ELSE IF t.idx % t.burst = 0 THEN [base EXCEPT !.pc = "sleep"]
        ELSE CallProcessInstrument(base, t.idx + 1)

\* await sleep(burstSleepMs) between two bursts.
Sleep(p, k) ==
    /\ T(p, k).pc = "sleep"
    /\ Set(p, k, CallProcessInstrument(T(p, k), T(p, k).idx + 1))
    /\ UNCHANGED <<envVars, schedVars, dbVars, mailLog, pureVars, vendorVars>>

\* failures.length ? "completed_with_errors" : "completed"
FinalStatusCompleted(t) == "completed"

FinalStatusRunning(t) == "running"

FinalStatus(t) == IF t.failures # {} THEN "completed_with_errors" ELSE "completed"

\* await storage.updateScanRun(id, {status: ...}) at the end of the try block;
\* then finally { isScanning = false }.
Finalize(p, k) ==
    /\ T(p, k).pc = "finalize"
    /\ \E ok \in Outcomes("finalize") :
        IF ok
          THEN /\ scanRuns' = [scanRuns EXCEPT ![T(p, k).runId] = FinalStatus(T(p, k))]
               /\ isScanning' = [isScanning EXCEPT ![p] = FALSE]
               /\ Set(p, k, Finished(k))
          ELSE /\ Set(p, k, Escape(T(p, k)))
               /\ UNCHANGED <<scanRuns, isScanning>>
    /\ UNCHANGED <<envVars, lockOwner, starting, scannerTimeout, timers, settings, candles,
                   indicators, scanProgress, signals, alertEvents, mailLog, pureVars, vendorVars>>

\* catch: await storage.updateScanRun(id, {status: "error"}); finally releases
\* the guard whether or not this update throws.
ErrorUpdate(p, k) ==
    /\ T(p, k).pc = "errorUpdate"
    /\ \E ok \in Outcomes("errorUpdate") :
        scanRuns' = IF ok THEN [scanRuns EXCEPT ![T(p, k).runId] = "error"] ELSE scanRuns
    /\ isScanning' = [isScanning EXCEPT ![p] = FALSE]
    /\ Set(p, k, Finished(k))
    /\ UNCHANGED <<envVars, lockOwner, starting, scannerTimeout, timers, settings, candles,
                   indicators, scanProgress, signals, alertEvents, mailLog, pureVars, vendorVars>>

\* -------------------------------------------------------- processInstrument
Inst(t) == env.instruments[t.idx]

\* ingestData(inst, timeframe): fetch; return when no candle came back; upsert
\* the candles; build and upsert the indicator rows.  The vendor call or
\* either upsert may throw.  The vendor returns every series ("ok"), series
\* with a required value missing ("partial"), candles without any indicator
\* value ("bare") or nothing ("empty").
IngestData(p, k, timeframe, next) ==
    LET t == T(p, k)
        bars == VendorBars(timeframe, now)
    IN  \E outcome \in env.vendor \cup
                        (IF "data" \in env.faults THEN {"throw_fetch", "throw_indicators"} ELSE {}) :
        /\ candles' = IF outcome \in {"ok", "partial", "bare", "throw_indicators"}
                        THEN UpsertCandles(Inst(t), timeframe, bars) ELSE candles
        /\ indicators' = IF outcome \in {"ok", "partial"}
                           THEN UpsertIndicators(Inst(t), timeframe, bars, outcome = "ok")
                           ELSE indicators
        /\ LET w == CASE outcome \in {"ok", "partial"} -> {"candles", "indicators"}
                      [] outcome \in {"bare", "throw_indicators"} -> {"candles"}
                      [] OTHER -> {}
               t2 == [t EXCEPT !.writes = @ \cup w]
           IN  Set(p, k, IF outcome \in {"throw_fetch", "throw_indicators"}
                           THEN AfterInstrument(t2, "threw")
                           ELSE [t2 EXCEPT !.pc = next])

PiIngestEntry(p, k) ==
    /\ T(p, k).pc = "pi_ingest15"
    /\ IngestData(p, k, "15m", "pi_ingest1h")
    /\ UNCHANGED <<envVars, schedVars, settings, scanRuns, scanProgress, signals,
                   alertEvents, mailLog, pureVars, vendorVars>>

PiIngestBias(p, k) ==
    /\ T(p, k).pc = "pi_ingest1h"
    /\ IngestData(p, k, "1h", "pi_read")
    /\ UNCHANGED <<envVars, schedVars, settings, scanRuns, scanProgress, signals,
                   alertEvents, mailLog, pureVars, vendorVars>>

\* getCandles / getIndicators of both timeframes, now = new Date(), the latest
\* closed candle of each timeframe; return 0 when either is missing, else
\* call storage.getScanProgress.
PiRead(p, k) ==
    /\ T(p, k).pc = "pi_read"
    /\ LET t == T(p, k)
           e == GetLatestClosedCandle(GetCandles(Inst(t), "15m", 100), "15m", now)
           b == GetLatestClosedCandle(GetCandles(Inst(t), "1h", 20), "1h", now)
       IN  \E ok \in Outcomes("data") :
            Set(p, k,
                IF ~ok THEN AfterInstrument(t, "threw")
                ELSE IF e = <<>> \/ b = <<>> THEN AfterInstrument(t, "no_closed")
                ELSE [t EXCEPT !.pc = "pi_progress", !.lcE = e, !.lcB = b,
                               !.entryCandles = GetCandles(Inst(t), "15m", 100),
                               !.entryIndicators = GetIndicators(Inst(t), "15m", 100),
                               !.biasCandles = GetCandles(Inst(t), "1h", 20),
                               !.biasIndicators = GetIndicators(Inst(t), "1h", 20),
                               !.indOK = IndicatorsCompleteForCandle(
                                             e[1], indicators[Inst(t)]["15m"])])
    /\ UNCHANGED <<envVars, schedVars, dbVars, mailLog, pureVars, vendorVars>>

\* The idempotence guard: the watermark is at or past the latest closed bar.
AlreadyProcessedNever(progress, latestClosedEntry) == FALSE

AlreadyProcessed(progress, latestClosedEntry) ==
    progress # <<>> /\ progress[1] >= latestClosedEntry[1]

\* The input of evaluateStrategies: both candle series filtered to the bars at
\* or before the latest closed bar, the indicator series as read.
StrategyInput(t) ==
    [entryCandles |-> AtOrBefore(t.entryCandles, t.lcE[1]),
     entryIndicators |-> t.entryIndicators,
     biasCandles |-> AtOrBefore(t.biasCandles, t.lcB[1]),
     biasIndicators |-> t.biasIndicators]

\* await storage.getScanProgress; the watermark guard; the data-quality gate;
\* evaluateStrategies; then the first findActiveSignal call, or the watermark
\* write when there is no result.
PiProgress(p, k) ==
    /\ T(p, k).pc = "pi_progress"
    /\ LET t == T(p, k)
           progress == scanProgress[Inst(t)]
       IN  \E ok \in Outcomes("data"), rs \in env.results :
            Set(p, k,
                IF ~ok THEN AfterInstrument(t, "threw")
                ELSE IF AlreadyProcessed(progress, t.lcE)
                  THEN AfterInstrument([t EXCEPT !.progress = progress], "watermark")
                ELSE IF ~t.indOK
                  THEN AfterInstrument([t EXCEPT !.progress = progress], "gate")
                ELSE [t EXCEPT !.progress = progress, !.results = rs, !.ri = 1,
                               !.reads = StrategyReads(StrategyInput(t)),
                               !.pc = IF rs = <<>> THEN "pi_advance" ELSE "pi_find"])
    /\ UNCHANGED <<envVars, schedVars, dbVars, mailLog, pureVars, vendorVars>>

\* The loop over stratResults goes to the next result, or to the watermark write.
NextResultSkipRest(t) == [t EXCEPT !.pc = "pi_advance", !.signal = 0, !.signalStatus = ""]

NextResult(t) ==
    IF t.ri >= Len(t.results)
      THEN [t EXCEPT !.pc = "pi_advance", !.signal = 0, !.signalStatus = ""]
      ELSE [t EXCEPT !.pc = "pi_find", !.ri = @ + 1, !.signal = 0, !.signalStatus = ""]

Result(t) == t.results[t.ri]

\* await storage.findActiveSignal: continue when an active signal exists.
PiFind(p, k) ==
    /\ T(p, k).pc = "pi_find"
    /\ LET t == [T(p, k) EXCEPT !.alert = NoAlert]
           existing == FindActiveSignal(Inst(t), "15m", Result(t).strategy, Result(t).direction)
       IN  \E ok \in Outcomes("alert") :
            Set(p, k,
                IF ~ok THEN AfterInstrument(t, "threw")
                ELSE IF existing # 0 THEN NextResult(t)
                ELSE [t EXCEPT !.pc = "pi_upsert"])
    /\ UNCHANGED <<envVars, schedVars, dbVars, mailLog, pureVars, vendorVars>>

\* await storage.upsertSignal({... status: "NEW"}); signalCount++.
PiUpsert(p, k) ==
    /\ T(p, k).pc = "pi_upsert"
    /\ LET t == T(p, k)
           data == [instrumentId |-> Inst(t), timeframe |-> "15m",
                    strategy |-> Result(t).strategy, direction |-> Result(t).direction,
                    candleDatetimeUtc |-> t.lcE[1], score |-> Result(t).score,
                    reasonJson |-> Result(t).reason, status |-> "NEW"]
           up == UpsertSignal(data)
       IN  \E ok \in Outcomes("alert") :
            IF ok
              THEN /\ signals' = up.rows
                   /\ Set(p, k, [t EXCEPT !.pc = "pi_settings", !.signal = up.id,
                                          !.signalStatus = up.rows[up.id].status,
                                          !.count = @ + 1, !.writes = @ \cup {"signals"}])
              ELSE /\ Set(p, k, AfterInstrument(t, "threw"))
                   /\ UNCHANGED signals
    /\ UNCHANGED <<envVars, schedVars, settings, scanRuns, candles, indicators,
                   scanProgress, alertEvents, mailLog, pureVars, vendorVars>>

\* settings.emailEnabled && signal.status === "NEW" && score >= minScoreToAlert
ShouldAlertAnyStatus(s, status, score) ==
    s.emailEnabled /\ score >= s.minScoreToAlert

ShouldAlertAnyScore(s, status, score) ==
    s.emailEnabled /\ status = "NEW"

ShouldAlert(s, status, score) ==
    s.emailEnabled /\ status = "NEW" /\ score >= s.minScoreToAlert

\* sendSignalAlert, up to its first await: skipped when SMTP is not configured.
SmtpConfigured(s) == s.alertToEmail # ""

\* await storage.getSettings(); the alert condition; mailer.sendMail is called.
PiSettings(p, k) ==
    /\ T(p, k).pc = "pi_settings"
    /\ LET t == T(p, k)
       IN  \E ok \in Outcomes("alert") :
            Set(p, k,
                IF ~ok THEN AfterInstrument(t, "threw")
                ELSE IF ShouldAlert(settings, t.signalStatus, Result(t).score)
                        /\ SmtpConfigured(settings)
                  THEN [t EXCEPT !.pc = "pi_send"]
                ELSE NextResult(t))
    /\ UNCHANGED <<envVars, schedVars, dbVars, mailLog, pureVars, vendorVars>>

\* ----------------------------------------------------------- sendSignalAlert
\* await mailer.sendMail(...): the transport is invoked; it resolves or rejects.
PiSend(p, k) ==
    /\ T(p, k).pc = "pi_send"
    /\ mailLog' = Bump(mailLog, SignalKey(signals[T(p, k).signal]))
    /\ \E ok \in Outcomes("alert") :
        Set(p, k, [T(p, k) EXCEPT !.pc = IF ok THEN "pi_event" ELSE "pi_errevent",
                                  !.alert = [signal |-> T(p, k).signal,
                                             steps |-> <<IF ok THEN "sent" ELSE "failed">>]])
    /\ UNCHANGED <<envVars, schedVars, dbVars, pureVars, vendorVars>>

\* await storage.createAlertEvent({status: "sent"}), inside the try block.
PiEvent(p, k) ==
    /\ T(p, k).pc = "pi_event"
    /\ \E ok \in Outcomes("alert") :
        IF ok
          THEN /\ alertEvents' = Append(alertEvents,
                                        [signalId |-> T(p, k).signal, status |-> "sent"])
               /\ Set(p, k, [T(p, k) EXCEPT !.pc = "pi_status",
                                            !.alert.steps = Append(@, "event sent"),
                                            !.writes = @ \cup {"alert_events"}])
          ELSE /\ Set(p, k, [T(p, k) EXCEPT !.pc = "pi_errevent"])
               /\ UNCHANGED alertEvents
    /\ UNCHANGED <<envVars, schedVars, settings, scanRuns, candles, indicators,
                   scanProgress, signals, mailLog, pureVars, vendorVars>>

\* await storage.updateSignalStatus(signal.id, "ALERTED"), inside the try block.
PiStatus(p, k) ==
    /\ T(p, k).pc = "pi_status"
    /\ \E ok \in Outcomes("alert") :
        IF ok
          THEN /\ signals' = UpdateSignalStatus(T(p, k).signal, "ALERTED")
               /\ Set(p, k, NextResult([T(p, k) EXCEPT !.alert.steps = Append(@, "alerted"),
                                                        !.writes = @ \cup {"signals"}]))
          ELSE /\ Set(p, k, [T(p, k) EXCEPT !.pc = "pi_errevent"])
               /\ UNCHANGED signals
    /\ UNCHANGED <<envVars, schedVars, settings, scanRuns, candles, indicators,
                   scanProgress, alertEvents, mailLog, pureVars, vendorVars>>

\* catch: await storage.createAlertEvent({status: "error"}); when this throws
\* too, the exception leaves sendSignalAlert and processInstrument.
PiErrEvent(p, k) ==
    /\ T(p, k).pc = "pi_errevent"
    /\ \E ok \in Outcomes("alert") :
        IF ok
          THEN /\ alertEvents' = Append(alertEvents,
                                        [signalId |-> T(p, k).signal, status |-> "error"])
               /\ Set(p, k, NextResult([T(p, k) EXCEPT !.alert.steps = Append(@, "event error"),
                                                        !.writes = @ \cup {"alert_events"}]))
          ELSE /\ Set(p, k, AfterInstrument(T(p, k), "threw"))
               /\ UNCHANGED alertEvents
    /\ UNCHANGED <<envVars, schedVars, settings, scanRuns, candles, indicators,
                   scanProgress, signals, mailLog, pureVars, vendorVars>>

\* upsertScanProgress: insert, on conflict (instrument, timeframe) overwrite.
UpsertScanProgressIfAbsent(inst, bar) ==
    IF scanProgress[inst] = <<>> THEN [scanProgress EXCEPT ![inst] = <<bar>>] ELSE scanProgress

UpsertScanProgress(inst, bar) == [scanProgress EXCEPT ![inst] = <<bar>>]

\* await storage.upsertScanProgress({lastProcessedBarUtc: latestClosedEntry});
\* return signalCount.
PiAdvance(p, k) ==
    /\ T(p, k).pc = "pi_advance"
    /\ \E ok \in Outcomes("alert") :
        IF ok
          THEN /\ scanProgress' = UpsertScanProgress(Inst(T(p, k)), T(p, k).lcE[1])
               /\ Set(p, k, AfterInstrument(
                               [T(p, k) EXCEPT !.writes = @ \cup {"scan_progress"}], "done"))
          ELSE /\ Set(p, k, AfterInstrument(T(p, k), "threw"))
               /\ UNCHANGED scanProgress
    /\ UNCHANGED <<envVars, schedVars, settings, scanRuns, candles, indicators,
                   signals, alertEvents, mailLog, pureVars, vendorVars>>

\* -------------------------------------------------------------- twelvedata
\* The initial rateLimit, and what resetWindowIfNeeded and resetState set.
FreshRateLimit(t) ==
    [creditsUsed |-> 0, creditsLeft |-> PLAN_LIMIT_PER_MIN, lastReset |-> t,
     paused |-> FALSE, pauseUntil |-> 0, retryCount |-> 0]

\* resetWindowIfNeeded: if (Date.now() - rateLimit.lastReset > 60000) reset.
WindowExpired(rl, t) == t - rl.lastReset > WindowMs

ResetWindowIfNeeded(rl, t) == IF WindowExpired(rl, t) THEN FreshRateLimit(t) ELSE rl

\* msUntilNextMinuteBoundary: max(ceil(nowMs / 60000) * 60000 - nowMs, 0).
CeilDiv(a, b) == (a + b - 1) \div b

MsUntilNextMinuteBoundaryFloor(t) == Max((t \div MinuteMs + 1) * MinuteMs - t, 0)

MsUntilNextMinuteBoundary(t) == Max(CeilDiv(t, MinuteMs) * MinuteMs - t, 0)

\* waitForBudget: rateLimit.paused && now < rateLimit.pauseUntil
PauseActive(rl, t) == rl.paused /\ t < rl.pauseUntil

\* waitForBudget: creditsUsed >= TARGET || creditsLeft <= PLAN_LIMIT - TARGET
BudgetReached(rl) ==
    \/ rl.creditsUsed >= TARGET_CREDITS_PER_MIN
    \/ rl.creditsLeft <= PLAN_LIMIT_PER_MIN - TARGET_CREDITS_PER_MIN

\* updateRateLimit: a header that parses overrides the counter.  A response is
\* [status, body, used, left]; used and left are <<>> (absent) or <<n>>.
UpdateRateLimit(rl, res) ==
    [rl EXCEPT !.creditsUsed = IF res.used # <<>> THEN res.used[1] ELSE @,
               !.creditsLeft = IF res.left # <<>> THEN res.left[1] ELSE @]

\* requestWithRetry after a successful response: count the credit locally when
\* the header is absent.
CountLocally(rl, res) ==
    [rl EXCEPT !.creditsUsed = IF res.used = <<>> THEN @ + 1 ELSE @,
               !.creditsLeft = IF res.left = <<>> THEN Max(@ - 1, 0) ELSE @]

\* One requestWithRetry call: its position, the promise it awaits (prior), its
\* gate (released), the loop counter, the network calls it made, the last
\* response, a sleep's wake-up time, and what held when waitForBudget
\* returned for the current attempt (acq).
IdleReq ==
    [pc |-> "idle", prior |-> "none", released |-> FALSE, order |-> 0, attempt |-> 0,
     calls |-> 0, lastRes |-> <<>>, lastErr |-> "", wake |-> 0, rolled |-> FALSE,
     acq |-> <<>>]

\* The promise requestQueue left by request q (prior.then(() => gate)) is
\* settled when q's prior is settled and q's gate is released.
RECURSIVE Settled(_)
Settled(q) == IF q = "none" THEN TRUE ELSE reqs[q].released /\ Settled(reqs[q].prior)

\* The work is over (returned or threw): finally { release() }.
SettleReleaseOnReturn(q, pc, err) ==
    [q EXCEPT !.pc = pc, !.lastErr = err, !.released = (pc = "done")]

Settle(q, pc, err) == [q EXCEPT !.pc = pc, !.lastErr = err, !.released = TRUE]

\* waitForBudget returns: getApiKey() throws when TWELVEDATA_API_KEY is not
\* set, else fetch(url) is called.
Send(q, rl, t) ==
    LET q2 == [q EXCEPT !.acq = <<[at |-> t, rolled |-> q.rolled,
                                   pauseActive |-> PauseActive(rl, t),
                                   creditsUsed |-> rl.creditsUsed,
                                   creditsLeft |-> rl.creditsLeft]>>]
    IN  IF env.apiKey THEN [q2 EXCEPT !.pc = "fetch", !.calls = @ + 1]
        ELSE Settle(q2, "failed", "apikey")

\* waitForBudget from the budget test on: sleep to the next minute boundary
\* plus 25 ms when the budget is reached, else return.
BudgetTest(q, rl, t) ==
    IF BudgetReached(rl)
      THEN [q EXCEPT !.pc = "budget_sleep",
                     !.wake = t + MsUntilNextMinuteBoundary(t) + BudgetGraceMs]
      ELSE Send(q, rl, t)

\* waitForBudget up to its first await; rl is rateLimit after
\* resetWindowIfNeeded, rolled says whether that reset the window.
WaitForBudget(q, rl, rolled, t) ==
    IF PauseActive(rl, t)
      THEN [q EXCEPT !.pc = "pause_sleep", !.wake = rl.pauseUntil, !.rolled = rolled,
                     !.acq = <<>>]
      ELSE BudgetTest([q EXCEPT !.rolled = rolled, !.acq = <<>>], rl, t)

\* When a sleep until `wake` ends: on time or late.
WakeTimes(wake) == {Max(now, wake + lag) : lag \in env.lag}

\* enqueueRequest up to `await prior`: chain a new gate behind requestQueue.
EnqueueRequest(r) ==
    /\ r \in env.callers
    /\ reqs[r].pc = "idle"
    /\ reqs' = [reqs EXCEPT ![r] = [@ EXCEPT !.pc = "await_prior", !.prior = requestQueue,
                                             !.order = history.enqueued + 1]]
    /\ requestQueue' = r
    /\ history' = [history EXCEPT !.enqueued = @ + 1]
    /\ UNCHANGED <<envVars, schedVars, task, dbVars, mailLog, pureVars, rateLimit, batch>>

\* await prior is over: the work starts with attempt 0 and waitForBudget().
PriorSettledAlways(r) == TRUE

PriorSettled(r) == Settled(reqs[r].prior)

StartWork(r) ==
    /\ reqs[r].pc = "await_prior"
    /\ PriorSettled(r)
    /\ rateLimit' = ResetWindowIfNeeded(rateLimit, now)
    /\ reqs' = [reqs EXCEPT ![r] = WaitForBudget(@, rateLimit', WindowExpired(rateLimit, now), now)]
    /\ UNCHANGED <<envVars, schedVars, task, dbVars, mailLog, pureVars, requestQueue,
                   batch, history>>

\* waitForBudget after one of its sleeps: resetWindowIfNeeded, then the budget
\* test (after the pause sleep) or the return (after the budget sleep).
WakeInWaitForBudget(r) ==
    /\ reqs[r].pc \in {"pause_sleep", "budget_sleep"}
    /\ \E t \in WakeTimes(reqs[r].wake) :
        /\ now' = t
        /\ rateLimit' = ResetWindowIfNeeded(rateLimit, t)
        /\ LET q == [reqs[r] EXCEPT !.rolled = @ \/ WindowExpired(rateLimit, t)]
           IN  reqs' = [reqs EXCEPT ![r] = IF reqs[r].pc = "pause_sleep"
                                             THEN BudgetTest(q, rateLimit', t)
                                             ELSE Send(q, rateLimit', t)]
    /\ UNCHANGED <<procs, env, schedVars, task, dbVars, mailLog, pureVars, requestQueue,
                   batch, history>>

\* res.status === 429
ThrottledOrFailed(res) == res.status # 200

Throttled(res) == res.status = 429

\* The response of fetch(url) arrives: updateRateLimit; on 429 pause to the
\* next minute boundary plus jitter and sleep; on another HTTP error or a body
\* with status "error" throw; else count the credit and return the values.
Response(r) ==
    /\ reqs[r].pc = "fetch"
    /\ now' = now + FetchMs
    /\ \E res \in env.responses, jitter \in env.jitter :
        LET q == [reqs[r] EXCEPT !.lastRes = <<res>>]
            rl == UpdateRateLimit(rateLimit, res)
            waitMs == MsUntilNextMinuteBoundary(now') + jitter
        IN  IF Throttled(res)
              THEN /\ rateLimit' = [rl EXCEPT !.retryCount = @ + 1, !.paused = TRUE,
                                              !.pauseUntil = now' + waitMs]
                   /\ reqs' = [reqs EXCEPT ![r] = [q EXCEPT !.pc = "retry_sleep",
                                                            !.wake = now' + waitMs]]
                   /\ history' = [history EXCEPT !.lastPause = now' + waitMs]
              ELSE /\ jitter = 0
                   /\ UNCHANGED history
                   /\ IF res.status # 200
                        THEN /\ rateLimit' = rl
                             /\ reqs' = [reqs EXCEPT ![r] = Settle(q, "failed", "http")]
                      ELSE IF res.body = "error"
                        THEN /\ rateLimit' = rl
                             /\ reqs' = [reqs EXCEPT ![r] = Settle(q, "failed", "body")]
                      ELSE /\ rateLimit' = CountLocally(rl, res)
                           /\ reqs' = [reqs EXCEPT ![r] = Settle(q, "done", "")]
    /\ UNCHANGED <<procs, env, schedVars, task, dbVars, mailLog, pureVars, requestQueue, batch>>

\* for (attempt = 0; attempt < MAX_RETRIES; attempt++)
AttemptsLeftOneMore(attempt) == attempt < MAX_RETRIES + 1

AttemptsLeft(attempt) == attempt < MAX_RETRIES

\* The sleep after a 429 ends: continue with the next attempt, or leave the
\* loop and throw when the attempts are used up.
RetryWake(r) ==
    /\ reqs[r].pc = "retry_sleep"
    /\ \E t \in WakeTimes(reqs[r].wake) :
        /\ now' = t
        /\ LET q == [reqs[r] EXCEPT !.attempt = @ + 1]
           IN  IF AttemptsLeft(q.attempt)
                 THEN /\ rateLimit' = ResetWindowIfNeeded(rateLimit, t)
                      /\ reqs' = [reqs EXCEPT ![r] =
                                    WaitForBudget(q, rateLimit', WindowExpired(rateLimit, t), t)]
                 ELSE /\ rateLimit' = rateLimit
                      /\ reqs' = [reqs EXCEPT ![r] = Settle(q, "failed", "exhausted")]
    /\ UNCHANGED <<procs, env, schedVars, task, dbVars, mailLog, pureVars, requestQueue,
                   batch, history>>

\* fetchIndicatorPackBatch: POST /batch is sent at once.
BatchSend ==
    /\ batch = "idle"
    /\ batch' = "fetching"
    /\ UNCHANGED <<envVars, schedVars, task, dbVars, mailLog, pureVars, rateLimit,
                   requestQueue, reqs, history>>

\* Its response: null when !res.ok, else updateRateLimit(res.headers).
BatchResponse ==
    /\ batch = "fetching"
    /\ now' = now + FetchMs
    /\ \E res \in env.batches :
        rateLimit' = IF res.status = 200 THEN UpdateRateLimit(rateLimit, res) ELSE rateLimit
    /\ batch' = "done"
    /\ UNCHANGED <<procs, env, schedVars, task, dbVars, mailLog, pureVars, requestQueue,
                   reqs, history>>

\* fetchAllIndicatorsForSymbol: the batch call (BatchSend, BatchResponse), then
\* the data of the batch or the sequential fallback.  batch is "returned" or
\* "threw" when the function is over and "fallback" while the endpoint calls
\* run; request "r1" is the endpoint call in progress.
Endpoints ==
    <<"time_series", "ema9", "ema21", "ema55", "ema200", "bbands", "macd", "atr", "adx">>

\* batch && Array.isArray(batch.data) && batch.data.length >= 9, where batch is
\* null when the request threw or !res.ok.
Usable(res) == res.status = 200 /\ res.body = "ok"

\* The next endpoint function is called: requestWithRetry up to `await prior`.
\* The record of the previous call, whose promise is settled, is dropped; a
\* settled prior is the same as no prior.
IssueCall ==
    /\ reqs' = [r \in ReqIds |->
                  IF r = "r1"
                    THEN [IdleReq EXCEPT !.pc = "await_prior",
                                         !.prior = IF requestQueue = "r1" THEN "none"
                                                   ELSE requestQueue,
                                         !.order = history.enqueued + 1]
                  ELSE IF reqs[r].prior = "r1" THEN [reqs[r] EXCEPT !.prior = "none"]
                  ELSE reqs[r]]
    /\ requestQueue' = "r1"
    /\ history' = [history EXCEPT !.enqueued = @ + 1,
                                  !.issued = Append(@, Endpoints[Len(@) + 1])]

\* After `await fetchIndicatorPackBatch(...)`: return the rows of the batch, or
\* call fetchTimeSeries.  The batch call received the response of this run.
PackAfterBatch ==
    /\ batch = "done"
    /\ \E res \in env.batches :
        IF Usable(res)
          THEN /\ batch' = "returned"
               /\ UNCHANGED <<reqs, requestQueue, history>>
          ELSE /\ batch' = "fallback"
               /\ IssueCall
    /\ UNCHANGED <<envVars, schedVars, task, dbVars, mailLog, pureVars, rateLimit>>

\* const x = await fetchX(...): the continuation runs when the call returned.
PreviousReturnedOrThrew(q) == q.pc \in {"done", "failed"}

PreviousReturned(q) == q.pc = "done"

\* The awaited endpoint call returned: call the next one, or return the pack
\* after the ninth.
PackNext ==
    /\ batch = "fallback"
    /\ PreviousReturned(reqs["r1"])
    /\ IF Len(history.issued) < Len(Endpoints)
         THEN /\ IssueCall
              /\ UNCHANGED batch
         ELSE /\ batch' = "returned"
              /\ UNCHANGED <<reqs, requestQueue, history>>
    /\ UNCHANGED <<envVars, schedVars, task, dbVars, mailLog, pureVars, rateLimit>>

\* The awaited endpoint call threw: fetchAllIndicatorsForSymbol throws.
PackThrow ==
    /\ batch = "fallback"
    /\ reqs["r1"].pc = "failed"
    /\ batch' = "threw"
    /\ UNCHANGED <<envVars, schedVars, task, dbVars, mailLog, pureVars, rateLimit, reqs,
                   requestQueue, history>>

\* ---------------------------------------------------- alerter and schema
\* A string is a sequence of characters; "CR", "LF" and "SP" stand for
\* carriage return, line feed and space, every other character for itself.
IsBreak(c) == c \in {"CR", "LF"}

\* .replace(/[\r\n]+/g, " "): every maximal run of CR / LF becomes one space.
RECURSIVE SkipBreaks(_)
SkipBreaks(s) == IF s # <<>> /\ IsBreak(Head(s)) THEN SkipBreaks(Tail(s)) ELSE s

RECURSIVE ReplaceBreaks(_)
ReplaceBreaks(s) ==
    IF s = <<>> THEN <<>>
    ELSE IF IsBreak(Head(s)) THEN <<"SP">> \o ReplaceBreaks(SkipBreaks(s))
    ELSE <<Head(s)>> \o ReplaceBreaks(Tail(s))

\* .trim(): white space (space and line terminators) is removed at both ends.
IsSpace(c) == c \in {"SP", "CR", "LF"}

Trim(s) ==
    LET inner == {i \in 1..Len(s) : ~IsSpace(s[i])}
    IN  IF inner = {} THEN <<>>
        ELSE SubSeq(s, CHOOSE i \in inner : \A j \in inner : i <= j,
                       CHOOSE i \in inner : \A j \in inner : i >= j)

\* .slice(0, max) for max >= 0
SliceTo(s, max) == SubSeq(s, 1, IF Len(s) <= max THEN Len(s) ELSE max)

\* .slice(from) for from >= 0
SliceFrom(s, from) == SubSeq(s, from + 1, Len(s))

\* safeString(value, max): String(value ?? "") with the breaks replaced,
\* trimmed and cut.  value is <<>> (null or undefined) or <<string>>.
SafeStringKeepCR(value, max) ==
    SliceTo(Trim(IF value = <<>> THEN <<>> ELSE value[1]), max)

SafeString(value, max) ==
    SliceTo(Trim(ReplaceBreaks(IF value = <<>> THEN <<>> ELSE value[1])), max)

\* formatAlertEmail: the subject is the sanitized template; the body is the
\* template with each interpolated symbol, direction, strategy, timeframe,
\* reason key and reason value sanitized to its cap, the reasons joined by line
\* feeds, trimmed.  Fixed text of the templates is written as one character
\* per piece; score and date are numbers and a formatted date.
RECURSIVE ReasonLines(_)
ReasonLines(reasons) ==
    IF reasons = <<>> THEN <<>>
    ELSE <<"SP", "-", "SP">> \o SafeString(<<reasons[1][1]>>, ReasonKeyCap) \o <<":", "SP">>
         \o SafeString(<<reasons[1][2]>>, ReasonValueCap)
         \o (IF Len(reasons) > 1 THEN <<"LF">> ELSE <<>>) \o ReasonLines(Tail(reasons))

FormatAlertEmail(signal, instrument, reasons) ==
    [subject |->
        SafeString(<<<<"[", "S", "]", "SP">> \o signal.direction \o <<"SP">>
                     \o instrument.canonicalSymbol \o <<"SP", "-", "SP">> \o signal.strategy
                     \o <<"SP", "(", "9", ")">>>>, SubjectCap),
     body |->
        Trim(<<"LF", "T", "LF", "=", "LF", "LF", "S", ":", "SP">>
             \o SafeString(<<instrument.canonicalSymbol>>, SymbolCap) \o <<"SP", "(">>
             \o SafeString(<<instrument.vendorSymbol>>, VendorSymbolCap) \o <<")", "LF", "D", ":", "SP">>
             \o SafeString(<<signal.direction>>, DirectionCap) \o <<"LF", "S", ":", "SP">>
             \o SafeString(<<signal.strategy>>, ReasonKeyCap) \o <<"LF", "T", ":", "SP">>
             \o SafeString(<<signal.timeframe>>, DirectionCap)
             \o <<"LF", "9", "LF", "d", "LF", "LF", "R", ":", "LF">>
             \o ReasonLines(reasons)
             \o <<"LF", "LF", "-", "LF", "T", "LF", "SP", "SP">>)]

\* canonicalToVendor: base "/" quote, with ":KuCoin" for CRYPTO.
IsCryptoAlways(assetClass) == TRUE

IsCrypto(assetClass) == assetClass = "CRYPTO"

CanonicalToVendor(canonical, assetClass) ==
    LET pair == SliceTo(canonical, BaseLen) \o <<"/">> \o SliceFrom(canonical, BaseLen)
    IN  IF IsCrypto(assetClass) THEN pair \o <<":", "K", "u", "C", "o", "i", "n">> ELSE pair

\* -------------------------------------------------------------- strategies
\* A candle is [t, high, low, close]; an indicator row is [t, nulls, ...] where
\* nulls is the set of its columns that are null and the other columns hold
\* numbers.  Prices are integers; the products with 1.002, 1.005, 0.998 and
\* 0.995 are compared after scaling both sides by 1000.  null is <<>>, a
\* present value v is <<v>>.
Fields ==
    {"ema9", "ema21", "ema55", "ema200", "bbUpper", "bbMiddle", "bbLower", "bbWidth",
     "macd", "macdSignal", "macdHist", "atr", "adx"}

\* The columns hasRequiredIndicators tests.
RequiredFields ==
    {"ema9", "ema21", "ema55", "ema200", "bbUpper", "bbMiddle", "bbLower", "bbWidth",
     "macdHist", "atr", "adx"}

IndicatorForCandle(inds, candle) ==
    LET i == FirstIndex({j \in 1..Len(inds) : inds[j].t = candle.t})
    IN  IF i = 0 THEN <<>> ELSE <<inds[i]>>

HasRequiredIndicators(ind) ==
    /\ ind # <<>>
    /\ ind[1].nulls \cap RequiredFields = {}

\* The direction of the bias, "NONE" when close and slope disagree.
BiasDirection(latestClosed, latestBias, bias3Ago) ==
    LET ema200SlopeUp == latestBias.ema200 > bias3Ago.ema200
        ema200SlopeDown == latestBias.ema200 < bias3Ago.ema200
        closeBias == latestClosed.close
        longBias == closeBias > latestBias.ema200 /\ ema200SlopeUp
        shortBias == closeBias < latestBias.ema200 /\ ema200SlopeDown
    IN  IF ~longBias /\ ~shortBias THEN "NONE"
        ELSE IF longBias THEN "LONG" ELSE "SHORT"

AdxTrendingStrict(adx) == adx > 18

AdxTrending(adx) == adx >= 18

EvaluateTrendContinuation(input) ==
    IF Len(input.biasIndicators) < MinBiasIndicators
       \/ Len(input.entryCandles) < MinEntryCandles
    THEN <<>>
    ELSE
    LET latestClosed == input.entryCandles[1]
        prevClosed == input.entryCandles[2]
        latestEntry == IndicatorForCandle(input.entryIndicators, latestClosed)
        latestBias == input.biasIndicators[1]
        bias3Ago == input.biasIndicators[4]
    IN
    IF latestEntry = <<>> \/ "ema200" \in latestBias.nulls \/ "ema200" \in bias3Ago.nulls
    THEN <<>>
    ELSE IF ~HasRequiredIndicators(latestEntry) THEN <<>>
    ELSE
    LET e == latestEntry[1]
        direction == BiasDirection(latestClosed, latestBias, bias3Ago)
        emaStack ==
            IF direction = "LONG" THEN e.ema9 > e.ema21 /\ e.ema21 > e.ema55
            ELSE e.ema9 < e.ema21 /\ e.ema21 < e.ema55
        pullbackZone ==
            IF direction = "LONG"
            THEN /\ \/ prevClosed.low * 1000 <= e.ema21 * 1002
                    \/ prevClosed.low * 1000 <= e.ema55 * 1005
                 /\ latestClosed.close > e.ema21
            ELSE /\ \/ prevClosed.high * 1000 >= e.ema21 * 998
                    \/ prevClosed.high * 1000 >= e.ema55 * 995
                 /\ latestClosed.close < e.ema21
        macdConfirm == IF direction = "LONG" THEN e.macdHist >= 0 ELSE e.macdHist <= 0
        score == 20 + (IF emaStack THEN 25 ELSE 0) + (IF pullbackZone THEN 20 ELSE 0)
                    + (IF macdConfirm THEN 15 ELSE 0)
                    + (IF AdxTrending(e.adx) THEN 20 ELSE 0)
    IN
    IF direction = "NONE" THEN <<>>
    ELSE IF score < 40 THEN <<>>
    ELSE <<[strategy |-> "TREND_CONTINUATION", direction |-> direction,
            score |-> IF score <= 100 THEN score ELSE 100]>>

\* sorted[k] of the numbers of a list (k counted from 0), without building the
\* sorted list: the value with at most k numbers below it and more than k
\* numbers at or below it.
Sorted(ws, k) ==
    CHOOSE v \in {ws[i] : i \in 1..Len(ws)} :
        /\ Cardinality({i \in 1..Len(ws) : ws[i] < v}) <= k
        /\ Cardinality({i \in 1..Len(ws) : ws[i] <= v}) > k

RECURSIVE NonNullWidths(_)
NonNullWidths(inds) ==
    IF inds = <<>> THEN <<>>
    ELSE (IF "bbWidth" \in inds[1].nulls THEN <<>> ELSE <<inds[1].bbWidth>>)
         \o NonNullWidths(Tail(inds))

\* entryCandles.slice(2, 22)
BaseRangeFromLatest(entryCandles) == Take(entryCandles, BreakoutRangeEnd - 2)

BaseRange(entryCandles) ==
    SubSeq(entryCandles, 3,
           IF Len(entryCandles) <= BreakoutRangeEnd THEN Len(entryCandles)
           ELSE BreakoutRangeEnd)

EvaluateRangeBreakout(input) ==
    IF Len(input.entryCandles) < MinBreakoutCandles
       \/ Len(input.entryIndicators) < MinBreakoutIndicators
    THEN <<>>
    ELSE
    LET latestClosed == input.entryCandles[1]
        prevClosed == input.entryCandles[2]
        latestInd == IndicatorForCandle(input.entryIndicators, latestClosed)
    IN
    IF latestInd = <<>> \/ ~HasRequiredIndicators(latestInd) THEN <<>>
    ELSE IF latestInd[1].adx > 18 THEN <<>>
    ELSE
    LET bbWidths == NonNullWidths(Take(input.entryIndicators, 50)) IN
    IF Len(bbWidths) < 10 THEN <<>>
    ELSE
    LET median == Sorted(bbWidths, Len(bbWidths) \div 2) IN
    IF latestInd[1].bbWidth >= median THEN <<>>
    ELSE
    LET baseRange == BaseRange(input.entryCandles)
        rangeHigh == CHOOSE h \in {baseRange[i].high : i \in 1..Len(baseRange)} :
                        \A i \in 1..Len(baseRange) : baseRange[i].high <= h
        rangeLow == CHOOSE l \in {baseRange[i].low : i \in 1..Len(baseRange)} :
                        \A i \in 1..Len(baseRange) : baseRange[i].low >= l
        longFollowThrough ==
            /\ prevClosed.close > rangeHigh
            /\ latestClosed.close > rangeHigh
            /\ latestClosed.close >= latestInd[1].bbUpper
        shortFollowThrough ==
            /\ prevClosed.close < rangeLow
            /\ latestClosed.close < rangeLow
            /\ latestClosed.close <= latestInd[1].bbLower
    IN
    IF longFollowThrough
    THEN <<[strategy |-> "RANGE_BREAKOUT", direction |-> "LONG", score |-> 70]>>
    ELSE IF shortFollowThrough
    THEN <<[strategy |-> "RANGE_BREAKOUT", direction |-> "SHORT", score |-> 70]>>
    ELSE <<>>

EvaluateStrategies(input) ==
    EvaluateTrendContinuation(input) \o EvaluateRangeBreakout(input)

\* ------------------------------------------------------------- environment
\* The wall clock passes a 15-minute boundary.
ClockAdvance ==
    /\ now < HourMs + MaxClockSteps * QuarterMs
    /\ now' = now + QuarterMs
    /\ UNCHANGED <<procs, env, schedVars, task, dbVars, mailLog, pureVars, vendorVars>>

\* POST /api/settings: storage.upsertSettings(parsed.data).
UpdateSettings ==
    /\ \E s \in env.settings : s # settings /\ settings' = s
    /\ UNCHANGED <<envVars, schedVars, task, scanRuns, candles, indicators,
                   scanProgress, signals, alertEvents, mailLog, pureVars, vendorVars>>

\* ------------------------------------------------------- specifications
DefaultSettings ==
    [scanEnabled |-> FALSE, emailEnabled |-> FALSE, alertToEmail |-> "",
     minScoreToAlert |-> MinScoreToAlert, maxSymbolsPerBurst |-> 4]

\* Scanning and e-mail alerts switched on, a recipient configured.
AlertingSettings ==
    [DefaultSettings EXCEPT !.scanEnabled = TRUE, !.emailEnabled = TRUE,
                            !.alertToEmail = "ops@example.com"]

InitState ==
    /\ lockOwner = "none"
    /\ starting = [p \in Procs |-> "idle"]
    /\ scannerTimeout = [p \in Procs |-> "null"]
    /\ timers = [p \in Procs |-> 0]
    /\ isScanning = [p \in Procs |-> FALSE]
    /\ task = [p \in Procs |-> [k \in Kinds |-> IdleTask]]
    /\ scanRuns = <<>>
    /\ candles = [i \in AllInstruments |-> [tf \in Timeframes |-> {}]]
    /\ indicators = [i \in AllInstruments |-> [tf \in Timeframes |-> <<>>]]
    /\ scanProgress = [i \in AllInstruments |-> <<>>]
    /\ signals = <<>>
    /\ alertEvents = <<>>
    /\ mailLog = <<>>

\* twelvedata at module load: lastReset = Date.now(), an empty queue.
InitVendor ==
    /\ rateLimit = FreshRateLimit(now)
    /\ requestQueue = "none"
    /\ reqs = [r \in ReqIds |-> IdleReq]
    /\ batch = "idle"
    /\ history = [enqueued |-> 0, lastPause |-> 0, issued |-> <<>>]

InitScanner ==
    /\ InitState
    /\ now = HourMs
    /\ InitVendor
    /\ args = <<>>
    /\ ret = <<>>

\* The per-instrument pipeline of one process: cycles are started by the manual
\* trigger; signal, alert-event, watermark and SMTP calls may fail; e-mail
\* alerting is switched on and off while cycles run; the clock moves on.
Init ==
    /\ InitScanner
    /\ procs = {"A"}
    /\ env = [faults |-> {"alert"}, vendor |-> {"ok"},
              results |-> ResultSets,
              settings |-> {AlertingSettings, [AlertingSettings EXCEPT !.emailEnabled = FALSE]},
              instruments |-> <<"EURUSD">>]
    /\ settings = AlertingSettings

InstrumentStep(p, k) ==
    \/ PiIngestEntry(p, k)
    \/ PiIngestBias(p, k)
    \/ PiRead(p, k)
    \/ PiProgress(p, k)
    \/ PiFind(p, k)
    \/ PiUpsert(p, k)
    \/ PiSettings(p, k)
    \/ PiSend(p, k)
    \/ PiEvent(p, k)
    \/ PiStatus(p, k)
    \/ PiErrEvent(p, k)
    \/ PiAdvance(p, k)

Next ==
    \/ \E p \in Procs : ManualTrigger(p)
    \/ \E p \in Procs, k \in Kinds :
        \/ CreateScanRun(p, k)
        \/ GetEnabledInstruments(p, k)
        \/ Finalize(p, k)
        \/ InstrumentStep(p, k)
    \/ ClockAdvance
    \/ UpdateSettings

Spec == Init /\ [][Next]_vars

\* The scheduler of one process: startScanner / stopScanner, timer ticks and
\* manual triggers over two instruments; the vendor returns no candles, the
\* ScanRun and settings calls may fail, scanning is switched on and off.
SchedSettings ==
    {[DefaultSettings EXCEPT !.scanEnabled = e, !.maxSymbolsPerBurst = 1] : e \in BOOLEAN}

SchedInit ==
    /\ InitScanner
    /\ procs = {"A"}
    /\ env = [faults |-> {"cycle", "finalize", "errorUpdate"}, vendor |-> {"empty"}, results |-> {<<>>},
              settings |-> SchedSettings, instruments |-> <<"BTCUSD", "EURUSD">>]
    /\ settings \in {s \in SchedSettings : s.scanEnabled}

CycleStep(p, k) ==
    \/ CreateScanRun(p, k)
    \/ GetEnabledInstruments(p, k)
    \/ PiIngestEntry(p, k)
    \/ PiIngestBias(p, k)
    \/ PiRead(p, k)
    \/ Sleep(p, k)
    \/ Finalize(p, k)
    \/ ErrorUpdate(p, k)

TickStep(p) ==
    \/ TickGetSettings(p)
    \/ TickDecide(p)
    \/ TickEnd(p)

SchedNext ==
    \/ \E p \in Procs : StartScanner(p)
    \/ \E p \in Procs : StartScannerLock(p)
    \/ \E p \in Procs : StopScanner(p)
    \/ \E p \in Procs : TimerFire(p)
    \/ \E p \in Procs : TickStep(p)
    \/ \E p \in Procs : ManualTrigger(p)
    \/ \E p \in Procs, k \in Kinds : CycleStep(p, k)
    \/ UpdateSettings

SchedSpec == SchedInit /\ [][SchedNext]_vars

\* The same scheduler when stopScanner is never called.  The event loop runs
\* every due timer and every continuation whose awaited call has settled.
RunningNext ==
    \/ \E p \in Procs : StartScanner(p)
    \/ \E p \in Procs : StartScannerLock(p)
    \/ \E p \in Procs : TimerFire(p)
    \/ \E p \in Procs : TickStep(p)
    \/ \E p \in Procs : ManualTrigger(p)
    \/ \E p \in Procs, k \in Kinds : CycleStep(p, k)
    \/ UpdateSettings

RunningSpec ==
    /\ SchedInit
    /\ [][RunningNext]_vars
    /\ WF_vars(\E p \in Procs : StartScanner(p) \/ StartScannerLock(p))
    /\ WF_vars(\E p \in Procs : TimerFire(p))
    /\ WF_vars(\E p \in Procs : TickStep(p))
    /\ WF_vars(\E p \in Procs, k \in Kinds : CycleStep(p, k))

\* The scheduler, never stopped, and the manual trigger when processInstrument
\* may throw as well: the vendor call, the indicator upsert or a read fails.
CycleInit ==
    /\ InitScanner
    /\ procs = {"A"}
    /\ env = [faults |-> {"cycle", "data", "finalize", "errorUpdate"}, vendor |-> {"empty"}, results |-> {<<>>},
              settings |-> SchedSettings, instruments |-> <<"BTCUSD", "EURUSD">>]
    /\ settings \in {s \in SchedSettings : s.scanEnabled}

CycleSpec == CycleInit /\ [][RunningNext]_vars

\* The same when the update of the ScanRun in the catch block of runScanCycle
\* succeeds; the update at the end of the try block may still throw.
RunInit ==
    /\ InitScanner
    /\ procs = {"A"}
    /\ env = [faults |-> {"cycle", "data", "finalize"}, vendor |-> {"empty"},
              results |-> {<<>>}, settings |-> SchedSettings,
              instruments |-> <<"BTCUSD", "EURUSD">>]
    /\ settings \in {s \in SchedSettings : s.scanEnabled}

RunSpec == RunInit /\ [][RunningNext]_vars

\* Two processes that call startScanner on one database and are never
\* stopped: the holder of the advisory lock runs its ticks and cycles.
LockInit ==
    /\ InitScanner
    /\ procs = Procs
    /\ env = [faults |-> {"cycle", "finalize", "errorUpdate"}, vendor |-> {"empty"}, results |-> {<<>>},
              settings |-> SchedSettings, instruments |-> <<"BTCUSD", "EURUSD">>]
    /\ settings \in {s \in SchedSettings : s.scanEnabled}

LockNext ==
    \/ \E p \in Procs : StartScanner(p)
    \/ \E p \in Procs : StartScannerLock(p)
    \/ \E p \in Procs : TimerFire(p)
    \/ \E p \in Procs : TickStep(p)
    \/ \E p \in Procs : CycleStep(p, "tick")

LockSpec == LockInit /\ [][LockNext]_vars

\* A fleet of two processes on one database: each may start its scanner (one
\* gets the advisory lock) and each serves the manual trigger; the alerting
\* calls may fail, alerting is on, every evaluation yields the same TREND_CONTINUATION result.
FleetInit ==
    /\ InitScanner
    /\ procs = Procs
    /\ env = [faults |-> {"alert"}, vendor |-> {"ok"},
              results |-> {<<t>> : t \in {r \in TrendResults : r.score >= MinScoreToAlert}},
              settings |-> {AlertingSettings}, instruments |-> <<"EURUSD">>]
    /\ settings = AlertingSettings

FleetNext ==
    \/ \E p \in Procs : StartScanner(p)
    \/ \E p \in Procs : StartScannerLock(p)
    \/ \E p \in Procs : TimerFire(p)
    \/ \E p \in Procs : TickStep(p)
    \/ \E p \in Procs : ManualTrigger(p)
    \/ \E p \in Procs, k \in Kinds :
        \/ CreateScanRun(p, k)
        \/ GetEnabledInstruments(p, k)
        \/ Finalize(p, k)
        \/ InstrumentStep(p, k)

FleetSpec == FleetInit /\ [][FleetNext]_vars

\* The pipeline of one process three hours into the data, when the bias
\* timeframe has four bars (the newest still forming): cycles are started by
\* the manual trigger; signal, alert-event, watermark and SMTP calls may fail.
EvalInit ==
    /\ InitState
    /\ now = 3 * HourMs
    /\ InitVendor
    /\ args = <<>>
    /\ ret = <<>>
    /\ procs = {"A"}
    /\ env = [faults |-> {"alert"}, vendor |-> {"ok"}, results |-> ResultSets,
              settings |-> {AlertingSettings}, instruments |-> <<"EURUSD">>]
    /\ settings = AlertingSettings

EvalNext ==
    \/ \E p \in Procs : ManualTrigger(p)
    \/ \E p \in Procs, k \in Kinds :
        \/ CreateScanRun(p, k)
        \/ GetEnabledInstruments(p, k)
        \/ Finalize(p, k)
        \/ InstrumentStep(p, k)

EvalSpec == EvalInit /\ [][EvalNext]_vars

\* The pipeline of one process when the vendor's indicator series may be
\* incomplete or absent: cycles are started by the manual trigger; signal,
\* alert-event, watermark and SMTP calls may fail; the clock moves on.
GateInit ==
    /\ InitScanner
    /\ procs = {"A"}
    /\ env = [faults |-> {"alert"}, vendor |-> {"ok", "partial", "bare"},
              results |-> {<<>>} \cup {<<b>> : b \in BreakoutResults},
              settings |-> {AlertingSettings}, instruments |-> <<"EURUSD">>]
    /\ settings = AlertingSettings

GateNext ==
    \/ \E p \in Procs : ManualTrigger(p)
    \/ \E p \in Procs, k \in Kinds :
        \/ CreateScanRun(p, k)
        \/ GetEnabledInstruments(p, k)
        \/ Finalize(p, k)
        \/ InstrumentStep(p, k)
    \/ ClockAdvance

GateSpec == GateInit /\ [][GateNext]_vars

\* The vendor client on its own: two requestWithRetry callers and one batch
\* call made at any time, starting on a minute boundary or 30 s into a minute;
\* responses are successful, throttled, HTTP errors or error bodies, with or
\* without credit headers; sleeps end on time or 1 ms late.
Responses ==
    {[status |-> st, body |-> "ok", used |-> h[1], left |-> h[2]] :
        st \in {200, 429, 500},
        h \in {<<<<>>, <<>>>>, <<<<TARGET_CREDITS_PER_MIN>>, <<PLAN_LIMIT_PER_MIN - TARGET_CREDITS_PER_MIN>>>>}}
    \cup {[status |-> 200, body |-> "error", used |-> <<>>, left |-> <<>>]}

GovInit ==
    /\ InitState
    /\ now \in {HourMs, HourMs + MinuteMs \div 2}
    /\ InitVendor
    /\ args = <<>>
    /\ ret = <<>>
    /\ procs = {}
    /\ env = [faults |-> {}, vendor |-> {}, results |-> {}, settings |-> {},
              instruments |-> <<>>, responses |-> Responses,
              jitter |-> {0, JitterRangeMs - 1}, lag |-> {0, 1}, callers |-> {"r1", "r2"},
              batches |-> Responses, apiKey |-> TRUE]
    /\ settings = DefaultSettings

GovNext ==
    \/ \E r \in ReqIds : EnqueueRequest(r)
    \/ \E r \in ReqIds : StartWork(r)
    \/ \E r \in ReqIds : WakeInWaitForBudget(r)
    \/ \E r \in ReqIds : Response(r)
    \/ \E r \in ReqIds : RetryWake(r)
    \/ BatchSend
    \/ BatchResponse

GovSpec == GovInit /\ [][GovNext]_vars

\* The credit counters on their own: two requests and one batch call whose
\* response is fixed for the run, so that every state shows what the batch
\* call received.
CreditInit ==
    /\ InitState
    /\ now = HourMs
    /\ InitVendor
    /\ args = <<>>
    /\ ret = <<>>
    /\ procs = {}
    /\ \E res \in Responses :
        env = [faults |-> {}, vendor |-> {}, results |-> {}, settings |-> {},
               instruments |-> <<>>, responses |-> Responses,
               jitter |-> {0}, lag |-> {0}, callers |-> {"r1", "r2"},
               batches |-> {res}, apiKey |-> TRUE]
    /\ settings = DefaultSettings

CreditSpec == CreditInit /\ [][GovNext]_vars

\* The request queue on its own: three concurrent requestWithRetry callers,
\* timers on time.  Every started step of a request is eventually taken:
\* promises settle, timers fire, the vendor answers.
RetryInit ==
    /\ InitState
    /\ now = HourMs
    /\ InitVendor
    /\ args = <<>>
    /\ ret = <<>>
    /\ procs = {}
    /\ env = [faults |-> {}, vendor |-> {}, results |-> {}, settings |-> {},
              instruments |-> <<>>, responses |-> Responses,
              jitter |-> {0}, lag |-> {0}, callers |-> ReqIds, apiKey |-> TRUE]
    /\ settings = DefaultSettings

RequestStep(r) == StartWork(r) \/ WakeInWaitForBudget(r) \/ Response(r) \/ RetryWake(r)

RetryNext == \E r \in ReqIds : EnqueueRequest(r) \/ RequestStep(r)

RetrySpec ==
    /\ RetryInit
    /\ [][RetryNext]_vars
    /\ \A r \in ReqIds : WF_vars(RequestStep(r))

\* The request queue when work fails: two requestWithRetry callers; the API key
\* is set or not; fetch gets values, an error body, an HTTP error, a 429, a
\* credit header at the target, or rejects (status 0).  Every started step of
\* a request is eventually taken.
QueueResponses ==
    {r \in Responses : r.used = <<>> \/ r.status = 200}
    \cup {[status |-> 0, body |-> "none", used |-> <<>>, left |-> <<>>]}

QueueInit ==
    /\ InitState
    /\ now = HourMs
    /\ InitVendor
    /\ args = <<>>
    /\ ret = <<>>
    /\ procs = {}
    /\ \E key \in BOOLEAN :
        env = [faults |-> {}, vendor |-> {}, results |-> {}, settings |-> {},
               instruments |-> <<>>, responses |-> QueueResponses,
               jitter |-> {0}, lag |-> {0}, callers |-> {"r1", "r2"}, apiKey |-> key]
    /\ settings = DefaultSettings

QueueSpec ==
    /\ QueueInit
    /\ [][RetryNext]_vars
    /\ \A r \in ReqIds : WF_vars(RequestStep(r))

\* fetchAllIndicatorsForSymbol on its own: the batch call gets a usable response, a short or malformed one, an
\* error body, an HTTP error or no response at all (status 0).
PackBatches ==
    {[status |-> 200, body |-> b, used |-> <<>>, left |-> <<>>] :
        b \in {"ok", "short", "malformed", "error"}}
    \cup {[status |-> st, body |-> "none", used |-> <<>>, left |-> <<>>] : st \in {0, 500}}

\* An endpoint call gets its values (with the credit header at the target or
\* without headers), is throttled, or gets an HTTP error.
PackResponses ==
    {r \in Responses : r.body = "ok" /\ (r.used = <<>> \/ r.status = 200)}

PackInit ==
    /\ InitState
    /\ now = HourMs
    /\ InitVendor
    /\ args = <<>>
    /\ ret = <<>>
    /\ procs = {}
    /\ \E res \in PackBatches :
        env = [faults |-> {}, vendor |-> {}, results |-> {}, settings |-> {},
               instruments |-> <<>>, responses |-> PackResponses,
               jitter |-> {0}, lag |-> {0}, callers |-> {},
               batches |-> {res}, apiKey |-> TRUE]
    /\ settings = DefaultSettings

PackStep ==
    \/ BatchSend
    \/ BatchResponse
    \/ PackAfterBatch
    \/ PackNext
    \/ PackThrow
    \/ \E r \in ReqIds : RequestStep(r)

PackSpec == PackInit /\ [][PackStep]_vars

\* getLatestClosedCandle on its own: any candle list of up to MaxCandles bars
\* on the 15-minute grid, either timeframe, an instant just before, at and
\* after the hour.
SeqsUpTo(S, n) == UNION {[1..m -> S] : m \in 0..n}

ClosedStamps == {i * QuarterMs : i \in 0..MaxStamp}

ClosedInstants == {HourMs - 1, HourMs, HourMs + QuarterMs}

ClosedInit ==
    /\ InitState
    /\ now = HourMs
    /\ InitVendor
    /\ procs = {}
    /\ env = [faults |-> {}, vendor |-> {}, results |-> {}, settings |-> {},
              instruments |-> <<>>]
    /\ settings = DefaultSettings
    /\ args \in [cs : SeqsUpTo(ClosedStamps, MaxCandles), timeframe : Timeframes,
                 nowMs : ClosedInstants]
    /\ ret = <<>>

\* One call: ret holds the returned value, <<>> for null or <<candle>>.
CallGetLatestClosedCandle ==
    /\ ret = <<>>
    /\ ret' = <<GetLatestClosedCandle(args.cs, args.timeframe, args.nowMs)>>
    /\ UNCHANGED <<envVars, schedVars, task, dbVars, mailLog, args, vendorVars>>

ClosedNext == CallGetLatestClosedCandle

ClosedSpec == ClosedInit /\ [][ClosedNext]_vars

\* The helper functions on their own: one call of safeString,
\* formatAlertEmail, canonicalToVendor or msUntilNextMinuteBoundary with
\* arguments from small sets.
Texts == SeqsUpTo({"a", "SP", "CR", "LF"}, MaxText)

Symbols == SeqsUpTo({"A", "/"}, BaseLen + 1)

Messy == {<<"a">>, <<"CR", "LF">>, <<"a", "CR">>, <<"LF", "a", "CR", "LF", "a">>}

MinuteInstants ==
    {m * MinuteMs + d : m \in 0..MaxMinutes,
                        d \in {0, 1, 2, 29999, 30000, 30001, 59998, 59999}}

QuarterInstants ==
    {q * QuarterMs + d : q \in 0..MaxMinutes,
                         d \in {0, 1, 2, 449999, 450000, 899998, 899999}}

HelperCalls ==
    {[fn |-> "safeString", value |-> v, max |-> m] :
        v \in {<<>>} \cup {<<x>> : x \in Texts}, m \in 0..MaxCap}
    \cup {[fn |-> "formatAlertEmail", canonicalSymbol |-> c, vendorSymbol |-> v,
           reasons |-> r] :
            c \in Messy, v \in Messy,
            r \in {<<>>} \cup {<<<<k, x>>>> : k \in Messy, x \in Messy}
                  \cup {<<<<k, k>>, <<x, x>>>> : k \in Messy, x \in Messy}}
    \cup {[fn |-> "canonicalToVendor", canonical |-> c, assetClass |-> a] :
            c \in Symbols, a \in {"FOREX", "METAL", "CRYPTO"}}
    \cup {[fn |-> "msUntilNextMinuteBoundary", nowMs |-> n] : n \in MinuteInstants}
    \cup {[fn |-> f, nowMs |-> n] :
            f \in {"msUntilNext15mBoundary", "scheduleNextTick"}, n \in QuarterInstants}

HelperInit ==
    /\ InitState
    /\ now = HourMs
    /\ InitVendor
    /\ procs = {}
    /\ env = [faults |-> {}, vendor |-> {}, results |-> {}, settings |-> {},
              instruments |-> <<>>]
    /\ settings = DefaultSettings
    /\ args \in HelperCalls
    /\ ret = <<>>

TheSignal == [direction |-> <<"L">>, strategy |-> <<"T">>, timeframe |-> <<"1", "5", "m">>]

Call(fn, result) ==
    /\ args.fn = fn
    /\ ret = <<>>
    /\ ret' = <<result>>
    /\ UNCHANGED <<envVars, schedVars, task, dbVars, mailLog, args, vendorVars>>

CallSafeString == Call("safeString", SafeString(args.value, args.max))

CallFormatAlertEmail ==
    Call("formatAlertEmail",
         FormatAlertEmail(TheSignal, [canonicalSymbol |-> args.canonicalSymbol,
                                      vendorSymbol |-> args.vendorSymbol], args.reasons))

CallCanonicalToVendor ==
    Call("canonicalToVendor", CanonicalToVendor(args.canonical, args.assetClass))

CallMsUntilNextMinuteBoundary ==
    Call("msUntilNextMinuteBoundary", MsUntilNextMinuteBoundary(args.nowMs))

CallMsUntilNext15mBoundary ==
    Call("msUntilNext15mBoundary", MsUntilNext15mBoundary(args.nowMs))

\* scheduleNextTick at nowMs: ret is the delay of the timer it arms.
CallScheduleNextTick == Call("scheduleNextTick", DelayMs(args.nowMs))

HelperNext ==
    \/ CallMsUntilNext15mBoundary
    \/ CallScheduleNextTick
    \/ CallSafeString
    \/ CallFormatAlertEmail
    \/ CallCanonicalToVendor
    \/ CallMsUntilNextMinuteBoundary

HelperSpec == HelperInit /\ [][HelperNext]_vars

\* The strategies on their own: one call of evaluateStrategies or of
\* hasRequiredIndicators.  Bar i of a series (0 the latest) has datetime
\* 100 - i; prices are around 100.
Candle(i, high, low, close) ==
    [t |-> 100 - i, high |-> high, low |-> low, close |-> close]

Row(i) ==
    [t |-> 100 - i, nulls |-> {}, ema9 |-> 100, ema21 |-> 100, ema55 |-> 100,
     ema200 |-> 100, bbUpper |-> 101, bbLower |-> 99, bbWidth |-> 2, macdHist |-> 1,
     adx |-> 10]

\* Four hourly rows whose EMA200 is 100 now and was `before` three bars ago.
BiasRows(before) ==
    [i \in 1..MinBiasIndicators |->
        [Row(i - 1) EXCEPT !.ema200 = IF i = MinBiasIndicators THEN before ELSE 100]]

\* Two 15-minute candles and the row of the latest one; the hourly candle closes
\* at biasClose.
TrendInputs ==
    {[fn |-> "evaluateStrategies",
      entryCandles |-> <<Candle(0, close, close, close), Candle(1, prev, prev, prev)>>,
      entryIndicators |-> <<[Row(0) EXCEPT !.ema9 = ema9, !.ema55 = ema55,
                                          !.macdHist = hist, !.adx = adx]>>,
      biasCandles |-> <<Candle(0, biasClose, biasClose, biasClose)>>,
      biasIndicators |-> BiasRows(before)] :
        close \in {99, 100, 101}, prev \in 98..102, ema9 \in {99, 101},
        ema55 \in {99, 101}, hist \in {-1, 0, 1}, adx \in {17, 18, 19},
        biasClose \in {99, 101}, before \in {99, 100, 101}}

\* A series of n candles in the range 99..101 whose two latest candles close at
\* close and prev, with the high and low of bar `spike` replaced when spike > 0.
Series(n, close, prev, spike, high, low) ==
    [i \in 1..n |->
        IF i = 1 THEN Candle(0, close, close, close)
        ELSE IF i = 2 THEN Candle(1, prev, prev, prev)
        ELSE IF i - 1 = spike THEN Candle(i - 1, high, low, 100)
        ELSE Candle(i - 1, 101, 99, 100)]

\* m rows: the latest has Bollinger width `width` and the given bands and ADX,
\* the next `widths` rows have width 2 and the remaining rows have none.
Rows(m, width, widths, upper, lower, adx) ==
    [i \in 1..m |->
        IF i = 1 THEN [Row(0) EXCEPT !.bbWidth = width, !.bbUpper = upper,
                                     !.bbLower = lower, !.adx = adx]
        ELSE IF i - 1 <= widths THEN Row(i - 1)
        ELSE [Row(i - 1) EXCEPT !.nulls = {"bbWidth"}]]

BreakoutInput(n, m, close, prev, spike, high, low, width, widths, upper, lower, adx, before) ==
    [fn |-> "evaluateStrategies",
     entryCandles |-> Series(n, close, prev, spike, high, low),
     entryIndicators |-> Rows(m, width, widths, upper, lower, adx),
     biasCandles |-> <<Candle(0, close, close, close)>>,
     biasIndicators |-> BiasRows(before)]

Spikes == {<<0, 101, 99>>} \cup {<<i, 103, 99>> : i \in {2, 21, 22, 23}}
                           \cup {<<i, 101, 97>> : i \in {2, 21, 22, 23}}

BreakoutInputs ==
    {BreakoutInput(MinBreakoutCandles, MinBreakoutIndicators, close, prev, s[1], s[2], s[3],
                   width, widths, bands[1], bands[2], adx, 100) :
        close \in {98, 100, 102}, prev \in {98, 100, 102}, s \in Spikes,
        width \in {1, 2, 3}, widths \in {8, 9, 49},
        bands \in {<<102, 98>>, <<103, 97>>}, adx \in {18, 19}}
    \cup {BreakoutInput(n, m, 102, 102, 0, 101, 99, 1, m - 1, 102, 98, 18, 100) :
            n \in {MinBreakoutCandles - 1, MinBreakoutCandles + 1},
            m \in {MinBreakoutIndicators - 1, MinBreakoutIndicators + 1}}

\* A series on which both strategies fire (rising hourly EMA200, ADX 18, two
\* closes above the range), with one column of the latest row null, or the
\* latest row filed under another bar.
NullInputs ==
    LET base == BreakoutInput(MinBreakoutCandles, MinBreakoutIndicators, 102, 102, 0, 101,
                              99, 1, 49, 102, 98, 18, 99)
    IN  {[base EXCEPT !.entryIndicators[1].nulls = nulls] :
            nulls \in {{}} \cup {{f} : f \in Fields} \cup {{"macd", "macdSignal"}}}
        \cup {[base EXCEPT !.entryIndicators[1].t = 101]}
        \cup {[base EXCEPT !.biasIndicators[i].nulls = {"ema200"}] : i \in {1, 4}}
        \cup {[base EXCEPT !.biasIndicators = SubSeq(@, 1, 3)]}

IndicatorInputs ==
    {[fn |-> "hasRequiredIndicators", ind |-> ind] :
        ind \in {<<>>} \cup {<<[Row(0) EXCEPT !.nulls = nulls]>> :
                    nulls \in {{}} \cup {{f} : f \in Fields} \cup {{f, "macd"} : f \in Fields}}}

StrategyInit ==
    /\ InitState
    /\ now = HourMs
    /\ InitVendor
    /\ procs = {}
    /\ env = [faults |-> {}, vendor |-> {}, results |-> {}, settings |-> {},
              instruments |-> <<>>]
    /\ settings = DefaultSettings
    /\ args \in TrendInputs \cup BreakoutInputs \cup NullInputs \cup IndicatorInputs
    /\ ret = <<>>

CallEvaluateStrategies == Call("evaluateStrategies", EvaluateStrategies(args))

CallHasRequiredIndicators == Call("hasRequiredIndicators", HasRequiredIndicators(args.ind))

StrategyNext ==
    \/ CallEvaluateStrategies
    \/ CallHasRequiredIndicators

StrategySpec == StrategyInit /\ [][StrategyNext]_vars

\* ------------------------------------------------------------------ claims
Tasks == Procs \X Kinds

\* C1: in one process the mail transport is invoked at most once per signal
\* key (instrument, timeframe, strategy, direction, candleDatetimeUtc), over
\* any sequence of cycles, failed sends and re-evaluations of a bar included.
C1_AtMostOneMailPerKey ==
    \A key \in DOMAIN mailLog : mailLog[key] <= 1

\* A key that was already mailed has been detected and upserted again, and the
\* alert condition is about to be evaluated for it.
C1_Witness ==
    \E x \in Tasks :
        /\ T(x[1], x[2]).pc = "pi_settings"
        /\ SignalKey(signals[T(x[1], x[2]).signal]) \in DOMAIN mailLog

\* C3: the store holds at most one signal row per five-column key; an upsert
\* of an existing key leaves the number of rows unchanged and the row carries
\* the score and reason of that latest call.
C3_KeysUnique ==
    \A i, j \in 1..Len(signals) :
        SignalKey(signals[i]) = SignalKey(signals[j]) => i = j

C3_UpsertStep ==
    \A x \in Tasks :
        LET t == T(x[1], x[2])
            key == <<env.instruments[t.idx], "15m", Result(t).strategy, Result(t).direction,
                     t.lcE[1]>>
            was == {i \in 1..Len(signals) : SignalKey(signals[i]) = key}
            is == {i \in 1..Len(signals') : SignalKey(signals'[i]) = key}
        IN  (t.pc = "pi_upsert" /\ signals' # signals) =>
              /\ was # {} => Len(signals') = Len(signals)
              /\ was = {} => Len(signals') = Len(signals) + 1
              /\ \A i \in is : /\ signals'[i].score = Result(t).score
                               /\ signals'[i].reasonJson = Result(t).reason
              /\ is # {}

C3_OneRowPerKeyLatestWins == []C3_KeysUnique /\ [][C3_UpsertStep]_vars

\* An upsert has just hit an existing row (the returned row is not NEW).
C3_Witness ==
    \E x \in Tasks :
        /\ T(x[1], x[2]).pc = "pi_settings"
        /\ T(x[1], x[2]).signalStatus = "ALERTED"

\* C8 as stated: a processInstrument call that finds the watermark at or past
\* the latest closed entry bar returns 0 and has made no storage write at all.
CallsPastWatermark ==
    {x \in Tasks : LET c == T(x[1], x[2]).lastCall
                   IN  /\ c.exit # "none" /\ c.progress # <<>> /\ c.lcE # <<>>
                       /\ c.progress[1] >= c.lcE[1]}

C8_NoWriteAtAll ==
    \A x \in CallsPastWatermark :
        /\ T(x[1], x[2]).lastCall.count = 0
        /\ T(x[1], x[2]).lastCall.writes = {}

\* C8 amended: such a call returns 0 and writes nothing but the re-ingested
\* candle and indicator rows: no signal, alert event or watermark write.
C8_OnlyReingestion ==
    \A x \in CallsPastWatermark :
        /\ T(x[1], x[2]).lastCall.exit = "watermark"
        /\ T(x[1], x[2]).lastCall.count = 0
        /\ T(x[1], x[2]).lastCall.writes \subseteq {"candles", "indicators"}

C8_Witness == CallsPastWatermark # {}

\* C9: the stored 15m watermark of an instrument never decreases, and every
\* watermark write sets a bar strictly later than the value the call read.
C9_WriteIsLater ==
    \A x \in Tasks :
        LET t == T(x[1], x[2])
        IN  t.pc = "pi_advance" => (t.progress = <<>> \/ t.lcE[1] > t.progress[1])

C9_NeverBack ==
    \A i \in AllInstruments :
        scanProgress[i] # <<>> =>
            /\ scanProgress'[i] # <<>>
            /\ scanProgress'[i][1] >= scanProgress[i][1]

C9_WatermarkMonotonic == []C9_WriteIsLater /\ [][C9_NeverBack]_vars

\* A call is about to move an existing watermark to a later bar.
C9_Witness ==
    \E x \in Tasks :
        /\ T(x[1], x[2]).pc = "pi_advance"
        /\ T(x[1], x[2]).progress # <<>>
        /\ scanProgress[env.instruments[T(x[1], x[2]).idx]] = T(x[1], x[2]).progress

\* C2: when two instances process the same instrument and closed bar at the
\* same time, at most one alert is dispatched (and recorded as sent) for the
\* signal, whatever the interleaving of their find, upsert and send steps.
SentEvents(id) ==
    {i \in 1..Len(alertEvents) : alertEvents[i] = [signalId |-> id, status |-> "sent"]}

C2_AtMostOneAlertPerSignal ==
    \A id \in 1..Len(signals) : Cardinality(SentEvents(id)) <= 1

\* C4: in one process at most one scan cycle is in flight, the guard is set
\* while it is, and while the guard is set no call of runScanCycle (from a
\* tick or a manual trigger) enters a cycle or creates a ScanRun.
CyclesInFlight(p) == {k \in Kinds : InCycle(p, k)}

C4_AtMostOneInFlight ==
    \A p \in Procs :
        /\ Cardinality(CyclesInFlight(p)) <= 1
        /\ CyclesInFlight(p) # {} => isScanning[p]

C4_RefusedWhileRunning ==
    \A p \in Procs, k \in Kinds :
        (isScanning[p] /\ ~InCycle(p, k)) =>
            /\ T(p, k).pc' \notin {"createRun"}
            /\ (CyclesInFlight(p) = {} => scanRuns' = scanRuns)

C4_SingleFlight == []C4_AtMostOneInFlight /\ [][C4_RefusedWhileRunning]_vars

\* A tick has read scanEnabled = true and is about to decide while the cycle
\* of a manual trigger is still running.
C4_Witness ==
    \E p \in Procs :
        /\ T(p, "tick").pc = "tick_decide"
        /\ T(p, "tick").scanEnabled
        /\ InCycle(p, "manual")

\* C5: an instance that does not hold the advisory lock has no cycle in
\* flight while another instance has one, whichever entry point started it.
C5_OneInstanceCycling ==
    \A p, q \in Procs :
        (p # q /\ lockOwner # p /\ CyclesInFlight(p) # {}) => CyclesInFlight(q) = {}

\* C6: in every state where no cycle is executing in a process its in-flight
\* guard is false, whichever step of runScanCycle failed.
C6_GuardReleased ==
    \A p \in Procs : CyclesInFlight(p) = {} => ~isScanning[p]

\* C7: once the scanner of a process is started with the lock acquired and is
\* never stopped, a timer is pending or a tick is running at all times, every
\* finished tick is followed by a pending timer, and ticks occur forever.
C7_ChainAlive ==
    \A p \in Procs :
        scannerTimeout[p] # "null" => (timers[p] > 0 \/ T(p, "tick").pc # "idle")

C7_TicksForever ==
    /\ []C7_ChainAlive
    /\ \A p \in Procs :
        /\ (T(p, "tick").pc = "tick_end") ~> (timers[p] > 0)
        /\ [](scannerTimeout[p] # "null" => <>(T(p, "tick").pc = "tick_getSettings"))

\* A tick has just ended while the guard is held and no cycle is running: it
\* was skipped as already running, or its cycle threw.
C7_Witness ==
    \E p \in Procs :
        /\ T(p, "tick").pc = "tick_end"
        /\ scannerTimeout[p] = "fired"
        /\ isScanning[p]
        /\ CyclesInFlight(p) = {}

\* C10 as stated: for every candle list the result is the most recent closed
\* candle (the greatest datetimeUtc with datetimeUtc + d <= t), or null when
\* no candle is closed, and never an unclosed candle.
Returned == ret # <<>>

ClosedOf(a) == {a.cs[i] : i \in {j \in 1..Len(a.cs) : a.cs[j] + TfMs(a.timeframe) <= a.nowMs}}

MostRecentClosed(a) ==
    IF ClosedOf(a) = {} THEN <<>>
    ELSE <<CHOOSE c \in ClosedOf(a) : \A d \in ClosedOf(a) : c >= d>>

C10_MostRecentForEveryList == Returned => ret[1] = MostRecentClosed(args)

\* C10 amended: for every list the result is a closed candle of the list, or
\* null exactly when none is closed; it is the most recent closed candle when
\* the list is ordered most recent first, as storage.getCandles returns it.
NewestFirst(cs) == \A i, j \in 1..Len(cs) : i < j => cs[i] >= cs[j]

C10_ClosedAndMostRecentWhenNewestFirst ==
    Returned =>
        /\ ret[1] = <<>> <=> ClosedOf(args) = {}
        /\ ret[1] # <<>> => ret[1][1] \in ClosedOf(args)
        /\ NewestFirst(args.cs) => ret[1] = MostRecentClosed(args)

\* A newest-first list whose first candle is still open and whose second
\* closes exactly at the instant: the second is returned.
C10_Witness ==
    /\ Returned
    /\ Len(args.cs) >= 2
    /\ NewestFirst(args.cs)
    /\ args.cs[1] + TfMs(args.timeframe) > args.nowMs
    /\ args.cs[2] + TfMs(args.timeframe) = args.nowMs
    /\ ret[1] = <<args.cs[2]>>

\* C11: every candle and indicator row evaluateStrategies reads when called
\* from processInstrument is of a bar at or before the latest closed bar of
\* its timeframe.
LatestClosedOf(t, timeframe) == IF timeframe = "15m" THEN t.lcE[1] ELSE t.lcB[1]

C11_NoFormingBarRead ==
    \A x \in Tasks :
        \A r \in T(x[1], x[2]).reads : r[3] <= LatestClosedOf(T(x[1], x[2]), r[1])

\* C12: whenever waitForBudget has returned and the network call is sent,
\* either the window was rolled over during that waitForBudget (counters
\* reset), or no pause is active and usage is below target.
Sending == {r \in ReqIds : reqs[r].pc = "fetch"}

C12_RolledOrBelowTarget ==
    \A r \in Sending :
        LET a == reqs[r].acq[1]
        IN  \/ a.rolled /\ a.creditsUsed = 0 /\ a.creditsLeft = PLAN_LIMIT_PER_MIN
            \/ /\ ~a.pauseActive
               /\ a.creditsUsed < TARGET_CREDITS_PER_MIN
               /\ a.creditsLeft > PLAN_LIMIT_PER_MIN - TARGET_CREDITS_PER_MIN

\* C13: after a 429 has set pauseUntil = P, no requestWithRetry attempt sends
\* its network call at a time <= P.
C13_SentStrictlyAfterPause ==
    \A r \in Sending : reqs[r].acq[1].at > history.lastPause

\* C14: every vendor call on the wire was sent after waitForBudget returned
\* for it, by the request that holds the serialized queue.
OnTheWire == Sending \cup (IF batch = "fetching" THEN {"batch"} ELSE {})

Governed(c) == c \in ReqIds /\ reqs[c].acq # <<>> /\ Settled(reqs[c].prior)

C14_EveryCallGoverned == \A c \in OnTheWire : Governed(c)

\* C15: requests run one at a time in enqueue order: whenever the work of a
\* request has started, the work of every request enqueued before it is over
\* (returned or threw), all attempts and sleeps of its retry loop included.
WorkStarted(r) == reqs[r].pc \notin {"idle", "await_prior"}

WorkOver(r) == reqs[r].pc \in {"done", "failed"}

EnqueuedBefore(q, r) == reqs[q].order > 0 /\ reqs[q].order < reqs[r].order

C15_OneAtATimeInOrder ==
    \A r \in ReqIds : WorkStarted(r) => \A q \in ReqIds : EnqueuedBefore(q, r) => WorkOver(q)

\* The third request enqueued is on the wire after the first two are over, one
\* of them after a retry sleep.
C15_Witness ==
    \E r \in ReqIds :
        /\ reqs[r].order = 3
        /\ reqs[r].pc = "fetch"
        /\ \E q \in ReqIds : EnqueuedBefore(q, r) /\ reqs[q].calls >= 2

\* C16: a 429 pauses the governor and the request sleeps to retry; one
\* requestWithRetry call makes at most MAX_RETRIES network calls, has failed
\* once MAX_RETRIES attempts were throttled, and always terminates.
C16_Bounded ==
    \A r \in ReqIds :
        /\ reqs[r].calls <= MAX_RETRIES
        /\ reqs[r].pc = "retry_sleep" =>
              /\ reqs[r].lastRes[1].status = 429
              /\ rateLimit.paused
              /\ rateLimit.pauseUntil = reqs[r].wake
              /\ reqs[r].attempt < MAX_RETRIES
        /\ reqs[r].attempt >= MAX_RETRIES => reqs[r].pc = "failed" /\ reqs[r].attempt = MAX_RETRIES

C16_BoundedRetriesAndTermination ==
    /\ []C16_Bounded
    /\ \A r \in ReqIds : (reqs[r].pc = "await_prior") ~> WorkOver(r)

\* A request that failed after three throttled network calls.
C16_Witness ==
    \E r \in ReqIds :
        /\ reqs[r].pc = "failed"
        /\ reqs[r].calls = MAX_RETRIES
        /\ reqs[r].attempt = MAX_RETRIES
        /\ reqs[r].lastRes[1].status = 429

\* C17: a response that is an HTTP error other than 429, or whose body has
\* status "error", makes the request fail in that step, and a failed request
\* makes no further network call.
ErrorResponse(q) ==
    /\ q.lastRes # <<>>
    /\ \/ q.lastRes[1].status \notin {200, 429}
       \/ q.lastRes[1].status = 200 /\ q.lastRes[1].body = "error"

C17_FailsAtOnce ==
    [][\A r \in ReqIds :
          /\ ErrorResponse(reqs'[r]) => reqs'[r].pc = "failed"
          /\ reqs[r].pc = "failed" => reqs'[r].pc = "failed" /\ reqs'[r].calls = reqs[r].calls]_vars

\* A request that failed on its second network call, attempts remaining.
C17_Witness ==
    \E r \in ReqIds :
        /\ ErrorResponse(reqs[r])
        /\ reqs[r].pc = "failed"
        /\ reqs[r].calls = 2
        /\ reqs[r].attempt = 1

\* C18: a cycle calls processInstrument at most once per instrument; the
\* step that finalizes the ScanRun writes "completed" iff the cycle ran to the
\* end without a failed instrument, "completed_with_errors" iff it ran to the
\* end with one, "error" iff an exception reached the catch block; a cycle
\* that ran to the end has attempted every enabled instrument, in order.
RECURSIVE Occurrences(_, _)
Occurrences(seq, x) ==
    IF seq = <<>> THEN 0
    ELSE (IF Head(seq) = x THEN 1 ELSE 0) + Occurrences(Tail(seq), x)

Finalizes(p, k) ==
    /\ T(p, k).pc \in {"finalize", "errorUpdate"}
    /\ task'[p][k] # task[p][k]
    /\ scanRuns' # scanRuns

Passive(p) ==
    /\ timers[p] = 0
    /\ scannerTimeout[p] = "null"
    /\ T(p, "tick").pc = "idle"

C19_PassiveWithoutLock ==
    [][\A p \in Procs :
          /\ (starting[p] = "lock" /\ starting'[p] = "refused") =>
                /\ timers'[p] = timers[p]
                /\ scannerTimeout'[p] = scannerTimeout[p]
          /\ lockOwner' # p => Passive(p)'
          /\ (starting[p] # "lock" /\ starting'[p] = "lock") =>
                UNCHANGED <<timers, scannerTimeout, task, lockOwner>>
          /\ (lockOwner # p /\ lockOwner' = p) => starting[p] = "lock"]_vars

\* One process was refused the lock while the other, which holds it, has a
\* tick running.
C19_Witness ==
    \E p, q \in Procs :
        /\ starting[p] = "refused"
        /\ lockOwner = q
        /\ q # p
        /\ T(q, "tick").pc # "idle"
        /\ Passive(p)

\* C20: after stopScanner has returned and until startScanner is called
\* again, no timer-driven cycle starts: no cycle of a tick is in flight that
\* was entered while the scheduler was stopped.
C20_NoCycleStartsAfterStop ==
    \A p \in Procs : InCycle(p, "tick") => ~T(p, "tick").afterStop

\* C26: safeString returns a string without CR and LF of length <= max, the
\* subject of formatAlertEmail has no CR and no LF, its body has no CR.
Called(fn) == ret # <<>> /\ args.fn = fn

Has(s, c) == \E i \in 1..Len(s) : s[i] = c

C26_NoBreaksAndCapped ==
    /\ Called("safeString") =>
          /\ ~Has(ret[1], "CR")
          /\ ~Has(ret[1], "LF")
          /\ Len(ret[1]) <= args.max
    /\ Called("formatAlertEmail") =>
          /\ ~Has(ret[1].subject, "CR")
          /\ ~Has(ret[1].subject, "LF")
          /\ ~Has(ret[1].body, "CR")

\* A symbol and a reason value with CR / LF inside went through
\* formatAlertEmail, a text with a break was cut by safeString.
C26_Witness ==
    \/ /\ Called("formatAlertEmail")
       /\ Has(args.canonicalSymbol, "CR")
       /\ Len(args.reasons) = 2
       /\ Has(args.reasons[2][2], "LF")
       /\ Has(ret[1].body, "LF")
    \/ /\ Called("safeString")
       /\ args.value # <<>>
       /\ Len(args.value[1]) > args.max
       /\ Has(args.value[1], "CR")
       /\ Len(ret[1]) = args.max

\* C27: canonicalToVendor returns the first three characters, "/", the rest,
\* and ":KuCoin" iff the asset class is CRYPTO; within an asset class no other
\* canonical symbol maps to the same vendor symbol.
KuCoin == <<":", "K", "u", "C", "o", "i", "n">>

Pair(c) == SubSeq(c, 1, IF Len(c) < 3 THEN Len(c) ELSE 3) \o <<"/">> \o SubSeq(c, 4, Len(c))

C30_NextBoundary ==
    Called("msUntilNextMinuteBoundary") =>
        /\ 0 <= ret[1]
        /\ ret[1] < 60000
        /\ (args.nowMs + ret[1]) % 60000 = 0
        /\ \A m \in 0..(MaxMinutes + 1) :
              m * 60000 >= args.nowMs => m * 60000 >= args.nowMs + ret[1]

\* Second 30 of a minute gives 30000; an instant on a boundary gives 0.
C30_Witness ==
    /\ Called("msUntilNextMinuteBoundary")
    /\ \/ args.nowMs = 60000 + 30000 /\ ret[1] = 30000
       \/ args.nowMs = 60000 /\ ret[1] = 0

\* C21: RANGE_BREAKOUT emits only when the previous and the latest close are
\* both beyond the high (low) of the candles at indices 2..21, the latest ADX
\* is <= 18, the latest Bollinger width is strictly below the median of the
\* trailing widths and the latest close is at or beyond the band; with
\* sufficient data such a series gives exactly one result, score 70, LONG for
\* an upward and SHORT for a downward break.
Of(strategy) == LET Is(r) == r.strategy = strategy IN SelectSeq(ret[1], Is)

Latest == args.entryCandles[1]

Prev == args.entryCandles[2]

LatestRows == {r \in {args.entryIndicators[i] : i \in 1..Len(args.entryIndicators)} : r.t = Latest.t}

Window == {args.entryCandles[i] : i \in 3..22}

Trailing == {i \in 1..Len(args.entryIndicators) : i <= 50 /\ "bbWidth" \notin args.entryIndicators[i].nulls}

\* w is below the median (the element at position floor(n / 2) of the sorted
\* widths) iff at most floor(n / 2) of the widths are <= w.
BelowMedian(w) ==
    Cardinality({i \in Trailing : args.entryIndicators[i].bbWidth <= w})
        <= Cardinality(Trailing) \div 2

BrokeUp(r) ==
    /\ \A c \in Window : Prev.close > c.high /\ Latest.close > c.high
    /\ Latest.close >= r.bbUpper

BrokeDown(r) ==
    /\ \A c \in Window : Prev.close < c.low /\ Latest.close < c.low
    /\ Latest.close <= r.bbLower

C21_RangeBreakout ==
    Called("evaluateStrategies") =>
        /\ Of("RANGE_BREAKOUT") # <<>> =>
              /\ Len(args.entryCandles) >= 24
              /\ \E r \in LatestRows :
                    /\ r.adx <= 18
                    /\ BelowMedian(r.bbWidth)
                    /\ BrokeUp(r) \/ BrokeDown(r)
        /\ \A r \in LatestRows :
              /\ Len(args.entryCandles) >= 24
              /\ Len(args.entryIndicators) >= 50
              /\ Cardinality(Trailing) >= 10
              /\ r.nulls = {}
              /\ r.adx <= 18
              /\ BelowMedian(r.bbWidth)
              => /\ BrokeUp(r) =>
                       Of("RANGE_BREAKOUT")
                           = <<[strategy |-> "RANGE_BREAKOUT", direction |-> "LONG", score |-> 70]>>
                 /\ BrokeDown(r) =>
                       Of("RANGE_BREAKOUT")
                           = <<[strategy |-> "RANGE_BREAKOUT", direction |-> "SHORT", score |-> 70]>>

\* Two closes at 102 above a range whose high is 101 gave one LONG result
\* although the candle at index 22, just outside the window, reached 103.
C21_Witness ==
    /\ Called("evaluateStrategies")
    /\ Len(args.entryCandles) >= 24
    /\ args.entryCandles[23].high = 103
    /\ Prev.close = 102
    /\ Latest.close = 102
    /\ Of("RANGE_BREAKOUT") = <<[strategy |-> "RANGE_BREAKOUT", direction |-> "LONG", score |-> 70]>>

\* C22: the TREND_CONTINUATION score is 20 plus 25 for the EMA stack, 20 for
\* pullback and reclaim, 15 for MACD histogram agreement and 20 for ADX >= 18;
\* with the rows present a result is emitted iff a bias direction exists and
\* the score is >= 40, and an emitted score lies in 40..100.
Stack(d, r) ==
    IF d = "LONG" THEN r.ema9 > r.ema21 /\ r.ema21 > r.ema55
    ELSE r.ema9 < r.ema21 /\ r.ema21 < r.ema55

Pullback(d, r) ==
    IF d = "LONG"
    THEN /\ Prev.low * 1000 <= r.ema21 * 1002 \/ Prev.low * 1000 <= r.ema55 * 1005
         /\ Latest.close > r.ema21
    ELSE /\ Prev.high * 1000 >= r.ema21 * 998 \/ Prev.high * 1000 >= r.ema55 * 995
         /\ Latest.close < r.ema21

Agrees(d, r) == IF d = "LONG" THEN r.macdHist >= 0 ELSE r.macdHist <= 0

Points(d, r) ==
    20 + (IF Stack(d, r) THEN 25 ELSE 0) + (IF Pullback(d, r) THEN 20 ELSE 0)
       + (IF Agrees(d, r) THEN 15 ELSE 0) + (IF r.adx >= 18 THEN 20 ELSE 0)

RowsPresent ==
    /\ Len(args.entryCandles) >= 2
    /\ Len(args.biasIndicators) >= 4
    /\ args.biasIndicators[1].nulls = {}
    /\ args.biasIndicators[4].nulls = {}
    /\ \E r \in LatestRows : r.nulls = {}

C22_TrendScore ==
    Called("evaluateStrategies") =>
        /\ Len(Of("TREND_CONTINUATION")) <= 1
        /\ \A i \in 1..Len(Of("TREND_CONTINUATION")) :
              LET t == Of("TREND_CONTINUATION")[i]
              IN  /\ t.score \in 40..100
                  /\ \E r \in LatestRows : t.score = Points(t.direction, r)
        /\ RowsPresent =>
              LET d == BiasDirection(Latest, args.biasIndicators[1], args.biasIndicators[4])
              IN  Of("TREND_CONTINUATION") # <<>>
                      <=> d # "NONE" /\ \E r \in LatestRows : Points(d, r) >= 40

\* The base with ADX 18 and an agreeing MACD histogram, no stack and no
\* pullback, gave a result of score 55.
C22_Witness ==
    /\ Called("evaluateStrategies")
    /\ Len(Of("TREND_CONTINUATION")) = 1
    /\ Of("TREND_CONTINUATION")[1].score = 55
    /\ \E r \in LatestRows :
          /\ r.adx = 18
          /\ ~Stack(Of("TREND_CONTINUATION")[1].direction, r)
          /\ ~Pullback(Of("TREND_CONTINUATION")[1].direction, r)

\* C23: a TREND_CONTINUATION result is LONG only if the latest bias-timeframe
\* close is above the latest bias EMA200 and that EMA200 is higher than three
\* bias bars earlier, SHORT only if the close is below it and the EMA200 is
\* lower; otherwise there is no result.
C23_DirectionFromBiasTimeframe ==
    Called("evaluateStrategies") =>
        \A i \in 1..Len(Of("TREND_CONTINUATION")) :
            LET t == Of("TREND_CONTINUATION")[i]
                close == args.biasCandles[1].close
                latest == args.biasIndicators[1].ema200
                before == args.biasIndicators[4].ema200
            IN  /\ t.direction = "LONG" => close > latest /\ latest > before
                /\ t.direction = "SHORT" => close < latest /\ latest < before

\* C24: hasRequiredIndicators holds iff the row exists and none of its
\* thirteen derived columns is null; when the row of the evaluated bar is
\* missing or has a null column, no strategy produces a result.
C24_CompleteIffAllFields ==
    /\ Called("hasRequiredIndicators") =>
          (ret[1] <=> args.ind # <<>> /\ args.ind[1].nulls \cap Fields = {})
    /\ Called("evaluateStrategies") =>
          (~(\E r \in LatestRows : r.nulls \cap Fields = {}) => ret[1] = <<>>)

\* C25: a finished alert dispatch attempt has recorded exactly one AlertEvent
\* matching its outcome: after a successful send one "sent" event and the
\* signal is ALERTED, after a failed send one "error" event and the signal is
\* still NEW; also when a storage write after a successful send fails.
C25_OneEventMatchingOutcome ==
    \A p \in Procs, k \in Kinds :
        LET a == T(p, k).alert
        IN  T(p, k).pc \in {"pi_find", "pi_advance"} /\ a.steps # <<>> =>
                IF a.steps[1] = "sent"
                  THEN /\ a.steps = <<"sent", "event sent", "alerted">>
                       /\ signals[a.signal].status = "ALERTED"
                  ELSE /\ a.steps = <<"failed", "event error">>
                       /\ signals[a.signal].status = "NEW"

\* C28: the status of a stored signal changes only from NEW to ALERTED, in
\* the updateSignalStatus call of an alert whose send succeeded; every other
\* step, the upsert of a re-detected key included, leaves every status.
C28_StatusOnlyNewToAlerted ==
    [][/\ Len(signals') >= Len(signals)
       /\ \A i \in 1..Len(signals) :
            signals'[i].status # signals[i].status =>
                /\ signals[i].status = "NEW"
                /\ signals'[i].status = "ALERTED"
                /\ \E p \in Procs, k \in Kinds :
                      /\ T(p, k).pc = "pi_status"
                      /\ T(p, k).alert = [signal |-> i, steps |-> <<"sent", "event sent">>]]_vars

\* upsertSignal met the key of a signal that is ALERTED and returned it with
\* this status.
C28_Witness ==
    \E p \in Procs, k \in Kinds :
        /\ T(p, k).pc = "pi_settings"
        /\ T(p, k).signalStatus = "ALERTED"
        /\ signals[T(p, k).signal].status = "ALERTED"

\* C29: a ScanRun is created as "running"; its status changes only from
\* "running" to "completed", "completed_with_errors" or "error" and never
\* again; when the update in the catch block succeeds, a ScanRun that is
\* still "running" belongs to a cycle that has not returned.
Terminal == {"completed", "completed_with_errors", "error"}

C29_ScanRunLifecycle ==
    /\ [](\A i \in 1..Len(scanRuns) :
            scanRuns[i] = "running" =>
                \E p \in Procs, k \in Kinds : InCycle(p, k) /\ T(p, k).runId = i)
    /\ [][/\ Len(scanRuns') >= Len(scanRuns)
          /\ \A i \in 1..Len(scanRuns') :
                IF i > Len(scanRuns) THEN scanRuns'[i] = "running"
                ELSE scanRuns'[i] # scanRuns[i] =>
                        scanRuns[i] = "running" /\ scanRuns'[i] \in Terminal]_vars

\* One ScanRun ended "error" after the update at the end of the try block had
\* thrown, another "completed_with_errors", and both cycles have returned.
C29_Witness ==
    /\ Len(scanRuns) = 2
    /\ "error" \in {scanRuns[i] : i \in 1..2}
    /\ "completed_with_errors" \in {scanRuns[i] : i \in 1..2}
    /\ \A p \in Procs, k \in Kinds : ~InCycle(p, k)

\* C31: msUntilNext15mBoundary(nowMs) is r with 0 < r <= 900000 and nowMs + r
\* the smallest multiple of 900000 strictly greater than nowMs; the timer of
\* scheduleNextTick is armed for r + 2000 ms.
C31_NextQuarter ==
    /\ Called("msUntilNext15mBoundary") =>
          /\ 0 < ret[1]
          /\ ret[1] <= 900000
          /\ (args.nowMs + ret[1]) % 900000 = 0
          /\ \A m \in 0..(MaxMinutes + 1) :
                m * 900000 > args.nowMs => m * 900000 >= args.nowMs + ret[1]
    /\ Called("scheduleNextTick") =>
          /\ ret[1] > 2000
          /\ ret[1] <= 902000
          /\ (args.nowMs + (ret[1] - 2000)) % 900000 = 0
          /\ \A m \in 0..(MaxMinutes + 1) :
                m * 900000 > args.nowMs => m * 900000 >= args.nowMs + ret[1] - 2000

\* On a boundary the next boundary is a whole interval away and the timer is
\* armed for 902000 ms.
C31_Witness ==
    \/ /\ Called("msUntilNext15mBoundary")
       /\ args.nowMs = 900000
       /\ ret[1] = 900000
    \/ /\ Called("scheduleNextTick")
       /\ args.nowMs = 900000
       /\ ret[1] = 902000

\* C32: after a response with api-credits-used / api-credits-left headers,
\* of a single or of the batched request, successful or not, creditsUsed /
\* creditsLeft equal the header values; after a completed request whose
\* response lacks a header the counter moved by one credit (creditsLeft not
\* below 0).
Adopted(res, completed) ==
    /\ rateLimit'.creditsUsed = IF res.used # <<>> THEN res.used[1]
                                ELSE IF completed THEN rateLimit.creditsUsed + 1
                                ELSE rateLimit.creditsUsed
    /\ rateLimit'.creditsLeft = IF res.left # <<>> THEN res.left[1]
                                ELSE IF ~completed THEN rateLimit.creditsLeft
                                ELSE IF rateLimit.creditsLeft > 0 THEN rateLimit.creditsLeft - 1
                                ELSE 0

C32_HeadersOverrideElseCountOne ==
    [][/\ \A r \in ReqIds :
            reqs[r].pc = "fetch" /\ reqs'[r].pc # "fetch" =>
                Adopted(reqs'[r].lastRes[1], reqs'[r].pc = "done")
       /\ batch = "fetching" /\ batch' = "done" =>
            \A res \in env.batches :
                Adopted(res, res.status = 200 /\ res.body # "error")]_vars

\* C33: when the batch response is unusable (no response, HTTP error, error
\* body, malformed or short data) fetchAllIndicatorsForSymbol issues the nine
\* endpoint calls in the fixed order, one at a time: the first when the batch
\* call is over, each next one only when the previous call has returned its
\* values, each entering requestWithRetry at `await prior`; a usable batch
\* response issues none.
IssuedInOrder == history.issued = SubSeq(Endpoints, 1, Len(history.issued))

FallbackOnlyWhenUnusable ==
    (history.issued # <<>> \/ batch \in {"fallback", "threw"})
        => \A res \in env.batches : ~Usable(res)

IssuedOneAfterPrevious ==
    history.issued' # history.issued =>
        /\ history.issued' = Append(history.issued, Endpoints[Len(history.issued) + 1])
        /\ IF history.issued = <<>>
             THEN batch = "done"
             ELSE batch = "fallback" /\ reqs["r1"].pc = "done"
        /\ reqs'["r1"].pc = "await_prior"
        /\ reqs'["r1"].attempt = 0

C33_SequentialFallback ==
    [](IssuedInOrder /\ FallbackOnlyWhenUnusable) /\ [][IssuedOneAfterPrevious]_vars

C33_Witness ==
    /\ batch = "returned"
    /\ history.issued = Endpoints
    /\ \E res \in env.batches : res.body = "short"
    /\ reqs["r1"].pc = "done"

\* C34: in every processInstrument execution the candle and indicator upserts
\* happen in the two ingest steps, before evaluateStrategies is called; the
\* ScanProgress write is the last step, taken when every result of the
\* evaluation was handled, and no signal, alert event or mail follows it; an
\* execution that throws leaves the watermark as it was, below the bar it was
\* evaluating.
IngestPcs == {"pi_ingest15", "pi_ingest1h"}

EvaluatedPcs ==
    {"pi_find", "pi_upsert", "pi_settings", "pi_send", "pi_event", "pi_status",
     "pi_errevent", "pi_advance"}

Below(progress, bar) == progress = <<>> \/ progress[1] < bar

IngestEvaluateAdvance(t, t2) ==
    /\ (candles' # candles \/ indicators' # indicators) => t.pc \in IngestPcs
    /\ (t2.pc \in EvaluatedPcs /\ t.pc \notin EvaluatedPcs) =>
            /\ t.pc = "pi_progress"
            /\ {"candles", "indicators"} \subseteq t.writes
            /\ candles[Inst(t)]["15m"] # {} /\ candles[Inst(t)]["1h"] # {}
    /\ (signals' # signals \/ alertEvents' # alertEvents \/ mailLog' # mailLog) =>
            /\ t.pc \in EvaluatedPcs \ {"pi_advance"}
            /\ "scan_progress" \notin t.writes
    /\ scanProgress' # scanProgress =>
            /\ t.pc = "pi_advance"
            /\ t.ri >= Len(t.results)
            /\ t2.lastCall.exit = "done"
            /\ scanProgress' = [scanProgress EXCEPT ![Inst(t)] = t.lcE]
            /\ signals' = signals /\ alertEvents' = alertEvents /\ mailLog' = mailLog
    /\ (t2.lastCall # t.lastCall /\ t2.lastCall.exit = "threw") =>
            /\ scanProgress' = scanProgress
            /\ t.pc \in EvaluatedPcs =>
                    /\ scanProgress[Inst(t)] = t.progress
                    /\ Below(scanProgress'[Inst(t)], t.lcE[1])

C34_IngestEvaluateAdvance ==
    [][\A p \in procs : IngestEvaluateAdvance(T(p, "manual"), task'[p]["manual"])]_vars

C34_Witness ==
    \E p \in procs :
        LET c == T(p, "manual").lastCall
        IN  /\ c.exit = "threw"
            /\ "signals" \in c.writes
            /\ c.lcE = <<HourMs>>
            /\ scanProgress[c.inst] = <<HourMs - QuarterMs>>

\* C35: a processInstrument execution that reached evaluateStrategies and
\* returned leaves the 15m watermark of its instrument at the latest closed
\* entry bar, whatever the evaluation produced (no result, only results
\* suppressed by an active signal, or stored signals); until the cycle ends
\* the watermark stays there.
ReturnedAfterEvaluation(t, t2) ==
    (t.pc \in EvaluatedPcs /\ t2.lastCall # t.lastCall /\ t2.lastCall.exit # "threw") =>
        /\ t2.lastCall.exit = "done"
        /\ t2.lastCall.lcE = t.lcE
        /\ scanProgress'[Inst(t)] = t.lcE

WatermarkAtLatestClosed ==
    \A p \in procs :
        LET c == T(p, "manual").lastCall
        IN  c.exit = "done" => scanProgress[c.inst] = c.lcE /\ c.lcE # <<>>

C35_WatermarkAtLatestClosed ==
    /\ []WatermarkAtLatestClosed
    /\ [][\A p \in procs : ReturnedAfterEvaluation(T(p, "manual"), task'[p]["manual"])]_vars

C35_Witness ==
    \E p \in procs :
        LET c == T(p, "manual").lastCall
        IN  /\ c.exit = "done"
            /\ c.count = 0
            /\ "signals" \notin c.writes
            /\ c.progress = <<HourMs - QuarterMs>>
            /\ scanProgress[c.inst] = <<HourMs>>
            /\ \E j \in 1..Len(signals) :
                    signals[j].status = "NEW" /\ signals[j].candleDatetimeUtc = HourMs - QuarterMs

\* C36: sendSignalAlert is called for a stored signal only in the step that
\* follows getSettings of that signal, and only if in the settings of that
\* moment email alerting is enabled, the score is at least minScoreToAlert and
\* the stored row has status NEW; the mail transport is invoked only by such a
\* call.
AlertOnlyIfEnabledScoredNew(t, t2) ==
    /\ (t2.pc = "pi_send" /\ t.pc # "pi_send") =>
            /\ t.pc = "pi_settings"
            /\ settings.emailEnabled
            /\ Result(t).score >= settings.minScoreToAlert
            /\ signals[t.signal].status = "NEW"
            /\ signals[t.signal].score = Result(t).score
            /\ t2.signal = t.signal
    /\ mailLog' # mailLog =>
            /\ t.pc = "pi_send"
            /\ mailLog' = Bump(mailLog, SignalKey(signals[t.signal]))

C36_AlertOnlyIfEnabledScoredNew ==
    [][\A p \in procs : AlertOnlyIfEnabledScoredNew(T(p, "manual"), task'[p]["manual"])]_vars

\* The settings changed between two signals of one execution: the first was
\* alerted, the second, with a sufficient score, was stored and not sent.
C36_Witness ==
    \E p \in procs :
        LET t == T(p, "manual")
        IN  /\ t.pc = "pi_advance"
            /\ t.count = 2
            /\ ~settings.emailEnabled
            /\ \E i, j \in 1..Len(signals) :
                    /\ signals[i].candleDatetimeUtc = t.lcE[1]
                    /\ signals[j].candleDatetimeUtc = t.lcE[1]
                    /\ signals[i].status = "ALERTED"
                    /\ SignalKey(signals[i]) \in DOMAIN mailLog
                    /\ signals[j].status = "NEW"
                    /\ signals[j].score >= settings.minScoreToAlert
                    /\ SignalKey(signals[j]) \notin DOMAIN mailLog

\* C37: processInstrument evaluates only when the indicator row of the latest
\* closed entry bar exists and is complete; when it returns at the
\* data-quality gate it has written candles and indicators only, no signal,
\* alert event or mail, and the watermark is unchanged and below that bar.
RowComplete(inst, bar) ==
    bar \in DOMAIN indicators[inst]["15m"] /\ indicators[inst]["15m"][bar]

GateLeavesNoTrace(t, t2) ==
    /\ (t.pc = "pi_progress" /\ t2.pc \in EvaluatedPcs) => RowComplete(Inst(t), t.lcE[1])
    /\ (t.pc = "pi_progress" /\ t2.lastCall # t.lastCall
            /\ ~RowComplete(Inst(t), t.lcE[1])
            /\ ~AlreadyProcessed(scanProgress[Inst(t)], t.lcE)) =>
            /\ t2.lastCall.exit = "gate"
            /\ t2.lastCall.count = 0
            /\ t2.lastCall.writes \subseteq {"candles", "indicators"}
            /\ signals' = signals /\ alertEvents' = alertEvents /\ mailLog' = mailLog
            /\ scanProgress' = scanProgress
            /\ Below(scanProgress'[Inst(t)], t.lcE[1])
    /\ (t2.lastCall # t.lastCall /\ t2.lastCall.exit = "gate") =>
            t.pc = "pi_progress" /\ ~RowComplete(Inst(t), t.lcE[1])

C37_GateLeavesNoTrace ==
    [][\A p \in procs : GateLeavesNoTrace(T(p, "manual"), task'[p]["manual"])]_vars

\* The gate tripped on an incomplete row of a bar later than the watermark,
\* which an earlier cycle had set.
C37_Witness ==
    \E p \in procs :
        LET c == T(p, "manual").lastCall
        IN  /\ c.exit = "gate"
            /\ c.lcE = <<HourMs>>
            /\ HourMs \in DOMAIN indicators[c.inst]["15m"]
            /\ ~indicators[c.inst]["15m"][HourMs]
            /\ scanProgress[c.inst] = <<HourMs - QuarterMs>>
            /\ c.progress = scanProgress[c.inst]

\* C38: in every state of a process at most one scheduler timer is pending,
\* and none is pending while a tick (the timer callback) is executing.
C38_OneTimerNoneWhileTick ==
    \A p \in procs :
        /\ timers[p] <= 1
        /\ T(p, "tick").pc # "idle" => timers[p] = 0

\* C39: a request whose work threw (HTTP error, error body, retries used up,
\* no API key, fetch rejected) has released its gate, and every request that
\* awaits the queue eventually starts its work and runs to its end.
FailedReleased == \A r \in ReqIds : reqs[r].pc = "failed" => reqs[r].released

C39_FailureReleasesQueue ==
    /\ []FailedReleased
    /\ \A r \in ReqIds :
          (reqs[r].pc = "await_prior") ~> (reqs[r].pc \in {"done", "failed"})

C39_Witness ==
    \E r \in ReqIds :
        /\ reqs[r].pc = "done"
        /\ reqs[r].prior # "none"
        /\ reqs[reqs[r].prior].pc = "failed"
        /\ reqs[reqs[r].prior].lastErr = "exhausted"
        /\ reqs[r].calls >= 1

\* C40: in one process no two signals with status NEW share (instrument,
\* timeframe, strategy, direction); upsertSignal is called only when no NEW
\* signal of the key exists, on any bar, and a call of sendSignalAlert sends,
\* records and updates only the signal its own execution just stored.
Key4(r) == <<r.instrumentId, r.timeframe, r.strategy, r.direction>>

NewOfKey(key) == {j \in 1..Len(signals) : Key4(signals[j]) = key /\ signals[j].status = "NEW"}

OneNewPerKey ==
    \A i, j \in 1..Len(signals) :
        (signals[i].status = "NEW" /\ signals[j].status = "NEW"
            /\ Key4(signals[i]) = Key4(signals[j])) => i = j

ResultKey(t) == <<Inst(t), "15m", Result(t).strategy, Result(t).direction>>

NewBlocksKey(t, t2) ==
    /\ (t.pc = "pi_find" /\ NewOfKey(ResultKey(t)) # {} /\ t2.lastCall = t.lastCall) =>
            /\ t2.pc \in {"pi_find", "pi_advance"}
            /\ t2.count = t.count
    /\ (t.pc = "pi_upsert" /\ signals' # signals) => NewOfKey(ResultKey(t)) = {}
    /\ (signals' # signals \/ alertEvents' # alertEvents \/ mailLog' # mailLog) =>
            \/ t.pc = "pi_upsert"
            \/ /\ t.pc \in {"pi_send", "pi_event", "pi_status", "pi_errevent"}
               /\ "signals" \in t.writes
               /\ Key4(signals[t.signal]) = ResultKey(t)
               /\ signals[t.signal].candleDatetimeUtc = t.lcE[1]
               /\ NewOfKey(ResultKey(t)) = {t.signal}
               /\ \A j \in 1..Len(signals) : j # t.signal => signals'[j] = signals[j]

C40_NewBlocksKey ==
    /\ []OneNewPerKey
    /\ [][\A p \in procs : NewBlocksKey(T(p, "manual"), task'[p]["manual"])]_vars

\* A NEW signal of the previous bar whose send failed is still there after a
\* later execution evaluated a result of the same key on the next bar and
\* stored nothing.
C40_Witness ==
    \E p \in procs :
        LET t == T(p, "manual")
        IN  /\ t.pc = "pi_advance"
            /\ t.lcE = <<HourMs>>
            /\ Len(t.results) = 1
            /\ t.count = 0
            /\ \E j \in NewOfKey(ResultKey(t)) :
                    /\ signals[j].candleDatetimeUtc = HourMs - QuarterMs
                    /\ \E e \in 1..Len(alertEvents) :
                            alertEvents[e] = [signalId |-> j, status |-> "error"]
            /\ \A j \in 1..Len(signals) : signals[j].candleDatetimeUtc # HourMs

============================================================================
